---- MODULE Spec2Model ----
(***************************************************************************)
(* A model of the Aseprite codec of nullstyle/deno-ase-format:             *)
(* parseAseprite (decode) and encodeAseprite (encode, preserved "chunks"   *)
(* mode and canonical mode).                                               *)
(*                                                                         *)
(* Wire data is modelled at field level: a file is a header record, a      *)
(* sequence of frame records and a byte length; a chunk is its declared    *)
(* size, its type code and the fields of its payload as they lie on the    *)
(* wire.  Byte lengths are computed from the fields (PayloadLen), so that  *)
(* declared sizes and truncation are decided by arithmetic, not assumed.   *)
(* Optional values are sequences of length 0 or 1.                         *)
(***************************************************************************)
EXTENDS Integers, Sequences, FiniteSets, TLC

VARIABLES pc, input, opts, file, err, edit, mode, out, encErr, file2, err2, out2, encErr2,
          ret, inflateCalls

vars == <<pc, input, opts, file, err, edit, mode, out, encErr, file2, err2, out2, encErr2,
         ret, inflateCalls>>

----------------------------------------------------------------------------
(* Optional values and small helpers *)

None == <<>>

Some(v) == <<v>>

IsSome(o) == Len(o) > 0

Get(o) == o[1]

\* JavaScript `v & bit` for a single bit (bit is a power of two)
HasBit(v, bit) == (v \div bit) % 2 = 1

\* DataView.getInt16 of the 16 bits written for a u16 raw value
ToI16(raw) == IF raw >= 32768 THEN raw - 65536 ELSE raw

\* DataView.setInt16 / setUint16: the value modulo 2^16
U16(v) == ((v % 65536) + 65536) % 65536

\* DataView.setUint8: the value modulo 2^8
U8(v) == ((v % 256) + 256) % 256

RECURSIVE SumSeq(_)
SumSeq(s) == IF Len(s) = 0 THEN 0 ELSE Head(s) + SumSeq(Tail(s))

Map(F(_), s) == [i \in 1..Len(s) |-> F(s[i])]

RECURSIVE Concat(_)
Concat(ss) == IF Len(ss) = 0 THEN <<>> ELSE Head(ss) \o Concat(Tail(ss))

\* TextDecoder("utf-8").decode of a byte string made of ASCII bytes, the byte 0xFF and
\* the sequence EF BF BD: the code points, U+FFFD standing for each invalid byte
RECURSIVE DecodeUtf8(_)
DecodeUtf8(bs) ==
  IF Len(bs) = 0 THEN <<>>
  ELSE IF Head(bs) < 128 THEN << Head(bs) >> \o DecodeUtf8(Tail(bs))
  ELSE IF Len(bs) >= 3 /\ SubSeq(bs, 1, 3) = <<239, 191, 189>>
    THEN << 65533 >> \o DecodeUtf8(SubSeq(bs, 4, Len(bs)))
  ELSE << 65533 >> \o DecodeUtf8(Tail(bs))

\* TextEncoder.encode of a string of ASCII code points and U+FFFD
RECURSIVE EncodeUtf8(_)
EncodeUtf8(str) ==
  IF Len(str) = 0 THEN <<>>
  ELSE (IF Head(str) < 128 THEN << Head(str) >> ELSE <<239, 191, 189>>) \o EncodeUtf8(Tail(str))

\* the decimal digits of n, as the template `ext_${n}` prints them
RECURSIVE ToDecimal(_)
ToDecimal(n) == IF n < 10 THEN << n >> ELSE ToDecimal(n \div 10) \o << n % 10 >>

\* parseInt(digits, 10) || 0
RECURSIVE ParseInt(_, _)
ParseInt(digits, acc) ==
  IF Len(digits) = 0 THEN acc ELSE ParseInt(Tail(digits), acc * 10 + Head(digits))

----------------------------------------------------------------------------
(* Constants of the format *)

ASE_FILE_MAGIC == 42464

ASE_FRAME_MAGIC == 61946

ChunkType ==
  [ OldPalette1 |-> 4, OldPalette2 |-> 17, Layer |-> 8196, Cel |-> 8197,
    CelExtra |-> 8198, ColorProfile |-> 8199, ExternalFiles |-> 8200,
    Mask |-> 8214, Path |-> 8215, Tags |-> 8216, Palette |-> 8217,
    UserData |-> 8224, Slice |-> 8226, Tileset |-> 8227 ]

\* Object.values(ChunkType)
ChunkTypeValues == { ChunkType[k] : k \in DOMAIN ChunkType }

CelType == [ RawImage |-> 0, Linked |-> 1, CompressedImage |-> 2, CompressedTilemap |-> 3 ]

LayerType == [ Normal |-> 0, Group |-> 1, Tilemap |-> 2 ]

PropertyType ==
  [ Null |-> 0, Bool |-> 1, Int8 |-> 2, Uint8 |-> 3, Int16 |-> 4, Uint16 |-> 5, Int32 |-> 6,
    Uint32 |-> 7, Int64 |-> 8, Uint64 |-> 9, Fixed |-> 10, Float |-> 11, Double |-> 12,
    String |-> 13, Point |-> 14, Size |-> 15, Rect |-> 16, Vector |-> 17,
    PropertiesMap |-> 18, UUID |-> 19 ]

AseErrorCode ==
  [ BAD_MAGIC |-> "BAD_MAGIC", OUT_OF_BOUNDS |-> "OUT_OF_BOUNDS",
    BAD_CHUNK_SIZE |-> "BAD_CHUNK_SIZE",
    UNSUPPORTED_COLOR_DEPTH |-> "UNSUPPORTED_COLOR_DEPTH",
    INVALID_CEL_TYPE |-> "INVALID_CEL_TYPE", INVALID_LINKED_CEL |-> "INVALID_LINKED_CEL",
    DECOMPRESSION_FAILED |-> "DECOMPRESSION_FAILED", MISSING_TILESET |-> "MISSING_TILESET" ]

\* new AseFormatError(message, code): an error that carries a taxonomy code
AseFormatError(code) == [ name |-> "AseFormatError", code |-> code, msg |-> "" ]

\* new Error(message): a plain error, it carries no code
PlainError(msg) == [ name |-> "Error", code |-> "", msg |-> msg ]

\* a TypeError raised by the runtime (property access on undefined)
TypeError(msg) == [ name |-> "TypeError", code |-> "", msg |-> msg ]

----------------------------------------------------------------------------
(* BinaryWriter: the number of bytes each chunk encoder writes.  A string  *)
(* is a u16 length and its bytes; every payload below is the record of the *)
(* fields of one chunk kind as they lie on the wire.                       *)

StringLen(s) == 2 + Len(s)

\* bytes of one user-data property value v of wire type t.  On the wire an integer of
\* up to 32 bits and a 16.16 fixed is the record of its 16-bit halves hi and lo, a
\* 64-bit integer the sequence of its four 16-bit words, a Float or Double the number
\* its bits stand for (halves of the integer part and a fraction in 65536ths), a
\* String and a UUID their bytes, a Point, Size or Rect the record of its 32-bit
\* fields, a Vector its element type and elements, a PropertiesMap its entries
RECURSIVE PropertyValueLen(_, _)
PropertyValueLen(t, v) ==
  CASE t \in {PropertyType.Bool, PropertyType.Int8, PropertyType.Uint8} -> 1
    [] t \in {PropertyType.Int16, PropertyType.Uint16} -> 2
    [] t \in {PropertyType.Int32, PropertyType.Uint32, PropertyType.Fixed,
              PropertyType.Float} -> 4
    [] t \in {PropertyType.Int64, PropertyType.Uint64, PropertyType.Double,
              PropertyType.Point, PropertyType.Size} -> 8
    [] t \in {PropertyType.Rect, PropertyType.UUID} -> 16
    [] t = PropertyType.String -> StringLen(v)
    [] t = PropertyType.Vector ->
         6 + SumSeq([ i \in 1..Len(v.elements) |-> PropertyValueLen(v.elementType, v.elements[i]) ])
    [] t = PropertyType.PropertiesMap ->
         4 + SumSeq([ i \in 1..Len(v) |->
                      StringLen(v[i].name) + 2 + PropertyValueLen(v[i].type, v[i].value) ])
    [] OTHER -> 0

PropertyLen(p) == StringLen(p.name) + 2 + PropertyValueLen(p.type, p.value)

ExtensionLen(e) == 8 + SumSeq(Map(PropertyLen, e.props))

UserDataLen(d) ==
  4 + (IF HasBit(d.flags, 1) THEN StringLen(d.text) ELSE 0)
    + (IF HasBit(d.flags, 2) THEN 4 ELSE 0)
    + (IF HasBit(d.flags, 4) THEN 4 + SumSeq(Map(ExtensionLen, d.properties)) ELSE 0)

LayerLen(d) == 16 + StringLen(d.name) + (IF IsSome(d.tilesetIndex) THEN 4 ELSE 0)

CelLen(d) ==
  16 + (CASE d.type = CelType.RawImage -> 4 + Len(d.bytes)
          [] d.type = CelType.Linked -> 2
          [] d.type = CelType.CompressedImage -> 4 + Len(d.bytes)
          [] d.type = CelType.CompressedTilemap -> 32 + Len(d.bytes)
          [] OTHER -> Len(d.bytes))

PaletteEntryLen(e) == 6 + (IF HasBit(e.flags, 1) THEN StringLen(e.name) ELSE 0)

PaletteLen(d) == 20 + SumSeq(Map(PaletteEntryLen, d.entries))

OldPacketLen(p) == 2 + 3 * Len(p.colors)

OldPaletteLen(d) == 2 + SumSeq(Map(OldPacketLen, d.packets))

TagLen(t) == 17 + StringLen(t.name)

TagsLen(d) == 10 + SumSeq(Map(TagLen, d.tags))

SliceKeyLen(k) == 20 + (IF IsSome(k.center) THEN 16 ELSE 0) + (IF IsSome(k.pivot) THEN 8 ELSE 0)

SliceLen(d) == 12 + StringLen(d.name) + SumSeq(Map(SliceKeyLen, d.keys))

TilesetLen(d) ==
  32 + StringLen(d.name) + (IF IsSome(d.externalFileId) THEN 8 ELSE 0)
     + (IF IsSome(d.compressedData) THEN 4 + Len(Get(d.compressedData)) ELSE 0)

ColorProfileLen(d) == 16 + (IF IsSome(d.iccData) THEN 4 + Len(Get(d.iccData)) ELSE 0)

ExternalFileLen(f) == 12 + StringLen(f.fileName)

ExternalFilesLen(d) == 12 + SumSeq(Map(ExternalFileLen, d.files))

\* data.length of the payload of a chunk of type t
PayloadLen(t, d) ==
  CASE t = ChunkType.Layer -> LayerLen(d)
    [] t = ChunkType.Cel -> CelLen(d)
    [] t = ChunkType.CelExtra -> 20
    [] t = ChunkType.Palette -> PaletteLen(d)
    [] t \in {ChunkType.OldPalette1, ChunkType.OldPalette2} -> OldPaletteLen(d)
    [] t = ChunkType.Tags -> TagsLen(d)
    [] t = ChunkType.UserData -> UserDataLen(d)
    [] t = ChunkType.Slice -> SliceLen(d)
    [] t = ChunkType.Tileset -> TilesetLen(d)
    [] t = ChunkType.ColorProfile -> ColorProfileLen(d)
    [] t = ChunkType.ExternalFiles -> ExternalFilesLen(d)
    [] OTHER -> Len(d.rawData)

\* the bytes one chunk occupies: 6 header bytes and its payload
ChunkBytes(c) == 6 + PayloadLen(c.type, c.data)

\* the bytes one frame occupies: 16 header bytes and its chunks
FrameBytes(f) == 16 + SumSeq(Map(ChunkBytes, f.chunks))

\* the bytes a whole file occupies: the 128-byte header and its frames
FileBytes(hdrAndFrames) == 128 + SumSeq(Map(FrameBytes, hdrAndFrames.frames))

----------------------------------------------------------------------------
(* Chunk parsers: the typed value each parser builds from the wire fields. *)
(* A typed chunk is a record with the chunk's type code and its value.     *)

parseLayerChunk(d) ==
  [ type |-> ChunkType.Layer,
    layer |-> [ flags |-> d.flags, type |-> d.type, childLevel |-> d.childLevel,
                defaultWidth |-> d.defaultWidth, defaultHeight |-> d.defaultHeight,
                blendMode |-> d.blendMode, opacity |-> d.opacity, name |-> DecodeUtf8(d.name),
                tilesetIndex |-> IF d.type = LayerType.Tilemap THEN d.tilesetIndex ELSE None,
                userData |-> None ] ]

\* the common prefix of a cel (x, y and zIndex are read as signed 16-bit)
CelBase(d) ==
  [ type |-> d.type, layerIndex |-> d.layerIndex, x |-> ToI16(d.x), y |-> ToI16(d.y),
    opacity |-> d.opacity, zIndex |-> ToI16(d.zIndex), userData |-> None, extra |-> None ]

\* the fields a record r adds to the record base
Extend(base, r) ==
  [ k \in (DOMAIN base) \cup (DOMAIN r) |-> IF k \in DOMAIN r THEN r[k] ELSE base[k] ]

\* parseCelChunk: the cel, or no cel when the variant tag is unknown
parseCelChunk(d) ==
  CASE d.type = CelType.RawImage ->
         Some(Extend(CelBase(d), [ width |-> d.width, height |-> d.height,
                                   data |-> [ kind |-> "raw", bytes |-> d.bytes, decoded |-> None ] ]))
    [] d.type = CelType.Linked ->
         Some(Extend(CelBase(d), [ linkedFrameIndex |-> d.linkedFrameIndex ]))
    [] d.type = CelType.CompressedImage ->
         Some(Extend(CelBase(d), [ width |-> d.width, height |-> d.height,
                                   data |-> [ kind |-> "zlib", bytes |-> d.bytes, decoded |-> None ] ]))
    [] d.type = CelType.CompressedTilemap ->
         Some(Extend(CelBase(d), [ width |-> d.width, height |-> d.height,
                                   bitsPerTile |-> d.bitsPerTile, masks |-> d.masks,
                                   data |-> [ kind |-> "zlib", bytes |-> d.bytes, decoded |-> None ],
                                   decodedTiles |-> None ]))
    [] OTHER -> None

\* reader.fixed16_16: the signed 32-bit raw value divided by 65536, kept as its integer
\* part and its fraction in 65536ths
Fixed16_16(raw) == [ int |-> raw \div 65536, frac |-> raw % 65536 ]

parseCelExtraChunk(d) ==
  [ type |-> ChunkType.CelExtra,
    extra |-> [ flags |-> d.flags, preciseX |-> Fixed16_16(d.preciseX),
                preciseY |-> Fixed16_16(d.preciseY), celWidth |-> Fixed16_16(d.celWidth),
                celHeight |-> Fixed16_16(d.celHeight) ] ]

parsePaletteEntry(e) ==
  Some([ r |-> e.r, g |-> e.g, b |-> e.b, a |-> e.a,
         name |-> IF HasBit(e.flags, 1) THEN Some(DecodeUtf8(e.name)) ELSE None ])

\* entries holds one optional entry per index: a modern palette fills every index
parsePaletteChunk(d) ==
  [ type |-> ChunkType.Palette,
    palette |-> [ size |-> d.size, firstIndex |-> d.firstIndex, lastIndex |-> d.lastIndex,
                  entries |-> Map(parsePaletteEntry, d.entries) ] ]

parseOldPacket(p) == [ skipCount |-> p.skipCount, colors |-> p.colors ]

parseOldPaletteChunk(d, chunkType) ==
  [ type |-> chunkType, packets |-> Map(parseOldPacket, d.packets) ]

parseTag(t) ==
  [ fromFrame |-> t.fromFrame, toFrame |-> t.toFrame, direction |-> t.direction,
    repeat |-> t.repeat, color |-> [ r |-> t.r, g |-> t.g, b |-> t.b ],
    name |-> DecodeUtf8(t.name),
    userData |-> None ]

parseTagsChunk(d) == [ type |-> ChunkType.Tags, tags |-> Map(parseTag, d.tags) ]

\* Map.set on a map kept as a sequence of key/value pairs in insertion order
RECURSIVE MapSet(_, _, _)
MapSet(m, key, value) ==
  IF Len(m) = 0 THEN << [ key |-> key, value |-> value ] >>
  ELSE IF Head(m).key = key THEN << [ key |-> key, value |-> value ] >> \o Tail(m)
  ELSE << Head(m) >> \o MapSet(Tail(m), key, value)

\* a JavaScript number: its integer part (the floor) is hi * 65536 + lo with lo in
\* 0..65535 and hi negative for a negative number, its fraction is frac / 65536
Num(hi, lo, frac) == [ k |-> "number", hi |-> hi, lo |-> lo, frac |-> frac ]

\* DataView.getInt32 of the halves of a 32-bit field
ReadI32(raw) == Num(IF raw.hi >= 32768 THEN raw.hi - 65536 ELSE raw.hi, raw.lo, 0)

\* a hexadecimal digit as toString(16) prints it
HexDigit(d) == IF d < 10 THEN 48 + d ELSE 87 + d

RECURSIVE HexOf(_)
HexOf(bytes) ==
  IF Len(bytes) = 0 THEN <<>>
  ELSE << HexDigit(Head(bytes) \div 16), HexDigit(Head(bytes) % 16) >> \o HexOf(Tail(bytes))

\* reader.uuid: the 32 hexadecimal digits of 16 bytes in the groups 8-4-4-4-12
ReadUuid(bytes) ==
  LET hex == HexOf(bytes)
  IN SubSeq(hex, 1, 8) \o <<45>> \o SubSeq(hex, 9, 12) \o <<45>> \o SubSeq(hex, 13, 16)
     \o <<45>> \o SubSeq(hex, 17, 20) \o <<45>> \o SubSeq(hex, 21, 32)

RECURSIVE parsePropertyValue(_, _)
RECURSIVE parseProperties(_, _)

\* parsePropertyValue(reader, propType), v being the value that lies at the reader
parsePropertyValue(propType, v) ==
  CASE propType = PropertyType.Null -> [ k |-> "null", hi |-> 0, lo |-> 0 ]
    [] propType = PropertyType.Bool -> [ k |-> "boolean", b |-> v.lo # 0 ]
    [] propType = PropertyType.Int8 -> Num(IF v.lo < 128 THEN 0 - 1 ELSE 0, U16(v.lo - 128), 0)
    [] propType = PropertyType.Uint8 -> Num(0, v.lo, 0)
    [] propType = PropertyType.Int16 -> Num(IF ToI16(v.lo) < 0 THEN 0 - 1 ELSE 0, v.lo, 0)
    [] propType = PropertyType.Uint16 -> Num(0, v.lo, 0)
    [] propType = PropertyType.Int32 -> ReadI32(v)
    [] propType = PropertyType.Uint32 -> Num(v.hi, v.lo, 0)
    [] propType = PropertyType.Int64 -> [ k |-> "bigint", negative |-> v[1] >= 32768, words |-> v ]
    [] propType = PropertyType.Uint64 -> [ k |-> "bigint", negative |-> FALSE, words |-> v ]
    [] propType = PropertyType.Fixed -> Num(IF v.hi >= 32768 THEN 0 - 1 ELSE 0, v.hi, v.lo)
    [] propType = PropertyType.Float -> Num(v.hi, v.lo, v.frac)
    [] propType = PropertyType.Double -> Num(v.hi, v.lo, v.frac)
    [] propType = PropertyType.String -> [ k |-> "string", s |-> DecodeUtf8(v) ]
    [] propType = PropertyType.Point ->
         [ k |-> "object", o |-> [ x |-> ReadI32(v.x), y |-> ReadI32(v.y) ] ]
    [] propType = PropertyType.Size ->
         [ k |-> "object", o |-> [ width |-> ReadI32(v.width), height |-> ReadI32(v.height) ] ]
    [] propType = PropertyType.Rect ->
         [ k |-> "object", o |-> [ x |-> ReadI32(v.x), y |-> ReadI32(v.y),
                                   width |-> ReadI32(v.width), height |-> ReadI32(v.height) ] ]
    [] propType = PropertyType.Vector ->
         [ k |-> "array",
           elements |-> [ i \in 1..Len(v.elements) |->
                          parsePropertyValue(v.elementType, v.elements[i]) ] ]
    [] propType = PropertyType.PropertiesMap -> [ k |-> "map", entries |-> parseProperties(v, <<>>) ]
    [] propType = PropertyType.UUID -> [ k |-> "string", s |-> ReadUuid(v) ]
    [] OTHER -> [ k |-> "unknownType", hi |-> 0, lo |-> propType ]

parseProperties(props, m) ==
  IF Len(props) = 0 THEN m
  ELSE parseProperties(Tail(props),
         MapSet(m, DecodeUtf8(Head(props).name),
                parsePropertyValue(Head(props).type, Head(props).value)))

\* parsePropertiesMap: the key of an extension block is "ext_" and its id
RECURSIVE parsePropertiesMap(_, _)
parsePropertiesMap(exts, m) ==
  IF Len(exts) = 0 THEN m
  ELSE parsePropertiesMap(Tail(exts),
         MapSet(m, [ prefix |-> "ext_", id |-> ToDecimal(Head(exts).extensionId) ],
                parseProperties(Head(exts).props, <<>>)))

parseUserDataChunk(d) ==
  [ type |-> ChunkType.UserData,
    userData |-> [ text |-> IF HasBit(d.flags, 1) THEN Some(DecodeUtf8(d.text)) ELSE None,
                   color |-> IF HasBit(d.flags, 2) THEN d.color ELSE None,
                   properties |-> IF HasBit(d.flags, 4)
                                  THEN Some(parsePropertiesMap(d.properties, <<>>))
                                  ELSE None ] ]

parseSliceChunk(d) ==
  [ type |-> ChunkType.Slice,
    slice |-> [ name |-> DecodeUtf8(d.name), flags |-> d.flags,
                keys |-> [ i \in 1..Len(d.keys) |->
                           [ frameIndex |-> d.keys[i].frameIndex, x |-> d.keys[i].x,
                             y |-> d.keys[i].y, width |-> d.keys[i].width,
                             height |-> d.keys[i].height,
                             center |-> IF HasBit(d.flags, 1) THEN d.keys[i].center ELSE None,
                             pivot |-> IF HasBit(d.flags, 2) THEN d.keys[i].pivot ELSE None ] ],
                userData |-> None ] ]

parseTilesetChunk(d) ==
  [ type |-> ChunkType.Tileset,
    tileset |-> [ id |-> d.id, flags |-> d.flags, tileCount |-> d.tileCount,
                  tileWidth |-> d.tileWidth, tileHeight |-> d.tileHeight,
                  baseIndex |-> ToI16(d.baseIndex), name |-> DecodeUtf8(d.name),
                  externalFileId |-> IF HasBit(d.flags, 1) THEN d.externalFileId ELSE None,
                  externalTilesetId |-> IF HasBit(d.flags, 1) THEN d.externalTilesetId ELSE None,
                  compressedData |-> IF HasBit(d.flags, 2) THEN d.compressedData ELSE None,
                  userData |-> None, tileUserData |-> None, decodedPixels |-> None ] ]

parseColorProfileChunk(d) ==
  [ type |-> ChunkType.ColorProfile,
    profile |-> [ type |-> d.type, flags |-> d.flags,
                  gamma |-> IF HasBit(d.flags, 1) THEN Some(Fixed16_16(d.gamma)) ELSE None,
                  iccData |-> IF d.type = 2 THEN d.iccData ELSE None ] ]

parseExternalFile(f) == [ id |-> f.id, type |-> f.type, fileName |-> DecodeUtf8(f.fileName) ]

parseExternalFilesChunk(d) ==
  [ type |-> ChunkType.ExternalFiles, files |-> Map(parseExternalFile, d.files) ]

----------------------------------------------------------------------------
(* parseHeader: the 128-byte header.  The reader fails with a plain Error  *)
(* on the first read that passes the end of the input (ensureBytes).       *)

OutOfBoundsError == PlainError("BinaryReader: Out of bounds")

UnknownCelTypeError == PlainError("Unknown cel type")

InvalidSeekError == PlainError("BinaryReader: Invalid seek offset")

\* a faulty variant of HeaderError: the colour depth is checked before the magic
HeaderErrorDepthFirst(in, strict) ==
  IF in.length < 14 THEN Some(OutOfBoundsError)
  ELSE IF strict /\ in.header.colorDepth \notin {8, 16, 32}
    THEN Some(AseFormatError(AseErrorCode.UNSUPPORTED_COLOR_DEPTH))
  ELSE IF strict /\ in.header.magic # ASE_FILE_MAGIC
    THEN Some(AseFormatError(AseErrorCode.BAD_MAGIC))
  ELSE IF in.length < 128 THEN Some(OutOfBoundsError)
  ELSE None

\* the error parseHeader throws, if any: the reads and the strict checks in their order
HeaderError(in, strict) ==
  IF in.length < 6 THEN Some(OutOfBoundsError)
  ELSE IF strict /\ in.header.magic # ASE_FILE_MAGIC
    THEN Some(AseFormatError(AseErrorCode.BAD_MAGIC))
  ELSE IF in.length < 14 THEN Some(OutOfBoundsError)
  ELSE IF strict /\ in.header.colorDepth \notin {8, 16, 32}
    THEN Some(AseFormatError(AseErrorCode.UNSUPPORTED_COLOR_DEPTH))
  ELSE IF in.length < 128 THEN Some(OutOfBoundsError)
  ELSE None

\* the AseHeader parseHeader returns (the grid position is read as signed 16-bit)
ReadHeader(h) ==
  [ fileSize |-> h.fileSize, magic |-> h.magic, frameCount |-> h.frameCount,
    width |-> h.width, height |-> h.height, colorDepth |-> h.colorDepth,
    flags |-> h.flags, speed |-> h.speed,
    transparentIndex |-> h.transparentIndex, colorCount |-> h.colorCount,
    pixelWidth |-> h.pixelWidth, pixelHeight |-> h.pixelHeight,
    gridX |-> ToI16(h.gridX), gridY |-> ToI16(h.gridY),
    gridWidth |-> h.gridWidth, gridHeight |-> h.gridHeight ]

\* the result is the error, if any, and the header read
parseHeader(in, strict) == [ err |-> HeaderError(in, strict), header |-> ReadHeader(in.header) ]

----------------------------------------------------------------------------
(* parseChunk and the ParseContext.  Entities are referred to by their     *)
(* position: a layer, slice or tileset by its index in the File's list, a  *)
(* cel by frame and position, the tags of one Tags chunk by the range they *)
(* take in the File's tag list.                                            *)

NewContext ==
  [ lastAttachTarget |-> None, pendingTagUserData |-> None, pendingTagUserDataIndex |-> 0,
    pendingTilesetUserData |-> None, frameIndex |-> 0, lastCel |-> None ]

Target(kind, i, j) == Some([ kind |-> kind, i |-> i, j |-> j ])

\* a faulty variant of ClearContext: the attach target is kept
ClearContextKeepTarget(ctx) ==
  [ ctx EXCEPT !.pendingTagUserData = None, !.pendingTilesetUserData = None ]

\* the context after a chunk that clears the attach target and both sub-cursors
ClearContext(ctx) ==
  [ ctx EXCEPT !.lastAttachTarget = None, !.pendingTagUserData = None,
               !.pendingTilesetUserData = None ]

\* a faulty variant of AttachUserData: the tag cursor is not advanced
AttachUserDataNoAdvance(st, ud) ==
  IF IsSome(st.ctx.pendingTagUserData)
     /\ st.ctx.pendingTagUserDataIndex < Get(st.ctx.pendingTagUserData).len
  THEN [ st EXCEPT !.tags[Get(st.ctx.pendingTagUserData).start
                          + st.ctx.pendingTagUserDataIndex + 1].userData = Some(ud) ]
  ELSE st

\* a faulty variant of AttachUserData: the tileset cursor never moves on to the tiles
AttachUserDataNoPhase(st, ud) ==
  IF IsSome(st.ctx.pendingTilesetUserData)
  THEN [ st EXCEPT !.tilesets[Get(st.ctx.pendingTilesetUserData).tileset].userData = Some(ud) ]
  ELSE st

\* the UserData case of parseChunk: attach chunk.userData according to the context
AttachUserData(st, ud) ==
  LET ctx == st.ctx IN
  IF IsSome(ctx.pendingTagUserData)
     /\ ctx.pendingTagUserDataIndex < Get(ctx.pendingTagUserData).len
  THEN LET t == Get(ctx.pendingTagUserData).start + ctx.pendingTagUserDataIndex + 1
       IN [ st EXCEPT !.tags[t].userData = Some(ud),
                      !.ctx.pendingTagUserDataIndex = @ + 1 ]
  ELSE IF IsSome(ctx.pendingTilesetUserData)
  THEN LET p == Get(ctx.pendingTilesetUserData) IN
       IF p.phase = "tileset"
       THEN [ st EXCEPT !.tilesets[p.tileset].userData = Some(ud),
                        !.ctx.pendingTilesetUserData =
                           Some([ p EXCEPT !.phase = "tiles", !.tileIndex = 0 ]) ]
       ELSE [ st EXCEPT !.tilesets[p.tileset].tileUserData =
                           Some((IF IsSome(@) THEN Get(@) ELSE <<>>) \o <<ud>>),
                        !.ctx.pendingTilesetUserData =
                           Some([ p EXCEPT !.tileIndex = @ + 1 ]) ]
  ELSE IF IsSome(ctx.lastAttachTarget)
  THEN LET a == Get(ctx.lastAttachTarget) IN
       CASE a.kind = "layer" -> [ st EXCEPT !.layers[a.i].userData = Some(ud) ]
         [] a.kind = "cel" -> [ st EXCEPT !.frames[a.i].cels[a.j].userData = Some(ud) ]
         [] a.kind = "slice" -> [ st EXCEPT !.slices[a.i].userData = Some(ud) ]
         [] a.kind = "tileset" -> [ st EXCEPT !.tilesets[a.i].userData = Some(ud) ]
         [] OTHER -> st
  ELSE st

\* the chunk kept in frame.chunks: it shares its layer, cel, tags, slice or tileset
\* with the File's lists, the other kinds hold their own value
PreservedChunk(st, c, chunk) ==
  CASE c.type = ChunkType.Layer -> [ type |-> c.type, layerRef |-> Len(st.layers) + 1 ]
    [] c.type = ChunkType.Cel ->
         [ type |-> c.type, celFrame |-> Len(st.frames),
           celRef |-> Len(st.frames[Len(st.frames)].cels) + 1 ]
    [] c.type = ChunkType.Tags ->
         [ type |-> c.type, tagsStart |-> Len(st.tags), tagsLen |-> Len(chunk.tags) ]
    [] c.type = ChunkType.Slice -> [ type |-> c.type, sliceRef |-> Len(st.slices) + 1 ]
    [] c.type = ChunkType.Tileset -> [ type |-> c.type, tilesetRef |-> Len(st.tilesets) + 1 ]
    [] OTHER -> chunk

\* the dispatch of parseChunk on the chunk type: the typed chunk a parser builds
ParsedChunk(c) ==
  CASE c.type = ChunkType.Layer -> parseLayerChunk(c.data)
    [] c.type = ChunkType.Cel -> [ type |-> c.type, cel |-> Get(parseCelChunk(c.data)) ]
    [] c.type = ChunkType.CelExtra -> parseCelExtraChunk(c.data)
    [] c.type = ChunkType.Palette -> parsePaletteChunk(c.data)
    [] c.type \in {ChunkType.OldPalette1, ChunkType.OldPalette2} ->
         parseOldPaletteChunk(c.data, c.type)
    [] c.type = ChunkType.Tags -> parseTagsChunk(c.data)
    [] c.type = ChunkType.UserData -> parseUserDataChunk(c.data)
    [] c.type = ChunkType.Slice -> parseSliceChunk(c.data)
    [] c.type = ChunkType.Tileset -> parseTilesetChunk(c.data)
    [] c.type = ChunkType.ColorProfile -> parseColorProfileChunk(c.data)
    [] c.type = ChunkType.ExternalFiles -> parseExternalFilesChunk(c.data)
    [] OTHER -> [ type |-> c.type, rawData |-> c.data.rawData ]

\* chunks.push(chunk) when preserveChunks is set
KeepChunk(st, c, chunk, preserveChunks) ==
  IF preserveChunks
  THEN [ st EXCEPT !.frames[Len(st.frames)].chunks = Some(Get(@) \o << PreservedChunk(st, c, chunk) >>) ]
  ELSE st

\* the effect of a chunk on the context (parseChunk) and on the collections
\* (parseAseprite); st is the state before the chunk, kept the state with the chunk
\* pushed on frame.chunks, f the number of the current frame
CollectChunk(st, kept, c, chunk, f) ==
  CASE c.type = ChunkType.Layer ->
         [ kept EXCEPT !.layers = @ \o << chunk.layer >>,
                       !.ctx = [ ClearContext(@) EXCEPT
                                   !.lastAttachTarget = Target("layer", Len(st.layers) + 1, 0) ] ]
    [] c.type = ChunkType.Cel ->
         [ kept EXCEPT !.frames[f].cels = @ \o << chunk.cel >>,
                       !.ctx = [ ClearContext(@) EXCEPT
                                   !.lastAttachTarget = Target("cel", f, Len(st.frames[f].cels) + 1),
                                   !.lastCel = Some([ f |-> f, i |-> Len(st.frames[f].cels) + 1 ]) ] ]
    [] c.type = ChunkType.CelExtra ->
         IF IsSome(st.ctx.lastCel)
         THEN [ kept EXCEPT !.frames[Get(st.ctx.lastCel).f].cels[Get(st.ctx.lastCel).i].extra =
                              Some(chunk.extra) ]
         ELSE kept
    [] c.type = ChunkType.Palette ->
         [ kept EXCEPT !.palette = Some(chunk.palette), !.ctx = ClearContext(@) ]
    [] c.type \in {ChunkType.OldPalette1, ChunkType.OldPalette2} ->
         [ kept EXCEPT !.oldPaletteChunks = @ \o << chunk >>, !.ctx = ClearContext(@) ]
    [] c.type = ChunkType.Tags ->
         [ kept EXCEPT !.tags = @ \o chunk.tags,
                       !.ctx = [ ClearContext(@) EXCEPT
                                   !.pendingTagUserData =
                                      Some([ start |-> Len(st.tags), len |-> Len(chunk.tags) ]),
                                   !.pendingTagUserDataIndex = 0 ] ]
    [] c.type = ChunkType.UserData ->
         IF st.ctx.frameIndex = 0 /\ IsSome(st.ctx.lastAttachTarget)
            /\ Get(st.ctx.lastAttachTarget).kind = "sprite"
         THEN [ AttachUserData(kept, chunk.userData) EXCEPT !.spriteUserData = Some(chunk.userData) ]
         ELSE AttachUserData(kept, chunk.userData)
    [] c.type = ChunkType.Slice ->
         [ kept EXCEPT !.slices = @ \o << chunk.slice >>,
                       !.ctx = [ ClearContext(@) EXCEPT
                                   !.lastAttachTarget = Target("slice", Len(st.slices) + 1, 0) ] ]
    [] c.type = ChunkType.Tileset ->
         [ kept EXCEPT !.tilesets = @ \o << chunk.tileset >>,
                       !.ctx = [ ClearContext(@) EXCEPT
                                   !.lastAttachTarget = Target("tileset", Len(st.tilesets) + 1, 0),
                                   !.pendingTilesetUserData =
                                      Some([ tileset |-> Len(st.tilesets) + 1,
                                             phase |-> "tileset", tileIndex |-> 0 ]) ] ]
    [] c.type = ChunkType.ColorProfile ->
         [ kept EXCEPT !.colorProfile = Some(chunk.profile), !.ctx = ClearContext(@) ]
    [] c.type = ChunkType.ExternalFiles ->
         [ kept EXCEPT !.externalFiles = Some(chunk.files), !.ctx = ClearContext(@) ]
    [] OTHER ->
         IF c.type \notin ChunkTypeValues
         THEN [ kept EXCEPT !.unknownChunks = @ \o << chunk >> ]
         ELSE kept

\* one chunk of a frame
parseChunk(st, c, preserveChunks) ==
  CollectChunk(st, KeepChunk(st, c, ParsedChunk(c), preserveChunks), c, ParsedChunk(c),
               Len(st.frames))

----------------------------------------------------------------------------
(* convertOldPalette: entries[index] = colour leaves a hole (no entry) at  *)
(* every index a packet skips.                                             *)

Holes(n) == [ i \in 1..n |-> None ]

OldEntry(color) == Some([ r |-> color.r, g |-> color.g, b |-> color.b, a |-> 255, name |-> None ])

\* entries after the packets ps, index being the running position
RECURSIVE convertPackets(_, _, _)
convertPackets(ps, entries, index) ==
  IF Len(ps) = 0 THEN [ entries |-> entries, index |-> index ]
  ELSE LET at == index + Head(ps).skipCount
           colors == Head(ps).colors
           padded == IF Len(colors) > 0 /\ at > Len(entries)
                     THEN entries \o Holes(at - Len(entries)) ELSE entries
           written == [ i \in 1..(IF Len(colors) = 0 THEN Len(padded)
                                  ELSE IF at + Len(colors) > Len(padded)
                                       THEN at + Len(colors) ELSE Len(padded)) |->
                        IF i > at /\ i <= at + Len(colors) THEN OldEntry(colors[i - at])
                        ELSE padded[i] ]
       IN convertPackets(Tail(ps), written, at + Len(colors))

RECURSIVE convertOldChunks(_, _, _)
convertOldChunks(oldChunks, entries, index) ==
  IF Len(oldChunks) = 0 THEN entries
  ELSE LET r == convertPackets(Head(oldChunks).packets, entries, index)
       IN convertOldChunks(Tail(oldChunks), r.entries, r.index)

\* the palette of the entries replayed: its size is entries.length
SynthesizedPalette(entries) ==
  [ size |-> Len(entries), firstIndex |-> 0, lastIndex |-> Len(entries) - 1, entries |-> entries ]

convertOldPalette(oldChunks) ==
  IF Len(oldChunks) = 0 THEN None
  ELSE Some(SynthesizedPalette(convertOldChunks(oldChunks, <<>>, 0)))

----------------------------------------------------------------------------
(* parseAseprite.  The input is the header, the frames and the number of   *)
(* bytes of them the byte array holds (a truncated file holds fewer).      *)

DEFAULT_OPTIONS == [ preserveChunks |-> TRUE, strict |-> TRUE ]

Fail(st, e) == [ st EXCEPT !.err = Some(e) ]

\* the chunks i.. of the wire frame wf; chunkCount is the count the frame header gave
RECURSIVE parseChunks(_, _, _, _, _, _)
parseChunks(st, wf, i, chunkCount, length, options) ==
  IF IsSome(st.err) \/ i > chunkCount THEN st
  ELSE IF i > Len(wf.chunks) \/ st.offset + 6 > length THEN Fail(st, OutOfBoundsError)
  ELSE LET c == wf.chunks[i]
           chunkStartOffset == st.offset
           chunkEndOffset == chunkStartOffset + c.size
       IN IF options.strict /\ chunkEndOffset > length
          THEN Fail(st, AseFormatError(AseErrorCode.BAD_CHUNK_SIZE))
          ELSE IF c.type = ChunkType.Cel /\ ~IsSome(parseCelChunk(c.data))
          THEN IF chunkStartOffset + 6 + 16 > length THEN Fail(st, OutOfBoundsError)
               ELSE Fail(st, UnknownCelTypeError)
          ELSE IF chunkStartOffset + 6 + PayloadLen(c.type, c.data) > length
          THEN Fail(st, OutOfBoundsError)
          ELSE IF chunkEndOffset > length THEN Fail(st, InvalidSeekError)
          ELSE parseChunks([ parseChunk(st, c, options.preserveChunks) EXCEPT
                               !.offset = chunkEndOffset ],
                           wf, i + 1, chunkCount, length, options)

\* a faulty variant of ChunkCount: the new count is taken whenever it is not 0
ChunkCountNewFirst(oldChunkCount, newChunkCount) ==
  IF newChunkCount # 0 THEN newChunkCount ELSE oldChunkCount

\* the chunk count a frame header declares
ChunkCount(oldChunkCount, newChunkCount) ==
  IF newChunkCount = 0 THEN oldChunkCount
  ELSE IF oldChunkCount = 65535 THEN newChunkCount
  ELSE oldChunkCount

\* a faulty variant of BeginFrame: every frame starts with a new context
BeginFrameNewContext(st, in, wf, frameIdx, options) ==
  [ st EXCEPT !.frames = @ \o << [ durationMs |-> IF wf.durationMs = 0 THEN in.header.speed
                                                  ELSE wf.durationMs,
                                   cels |-> <<>>,
                                   chunks |-> IF options.preserveChunks THEN Some(<<>>)
                                              ELSE None ] >>,
              !.offset = st.offset + 16,
              !.ctx = [ NewContext EXCEPT !.frameIndex = frameIdx - 1 ] ]

\* the state when the chunks of a frame begin: the frame is entered in the list, the
\* context knows its index and has no last cel
BeginFrame(st, in, wf, frameIdx, options) ==
  [ st EXCEPT !.frames = @ \o << [ durationMs |-> IF wf.durationMs = 0 THEN in.header.speed
                                                  ELSE wf.durationMs,
                                   cels |-> <<>>,
                                   chunks |-> IF options.preserveChunks THEN Some(<<>>)
                                              ELSE None ] >>,
              !.offset = st.offset + 16,
              !.ctx.frameIndex = frameIdx - 1,
              !.ctx.lastCel = None ]

RECURSIVE parseFrames(_, _, _, _)

\* after the chunks of a frame: reader.seek to the end of the frame, then the next one
EndFrame(done, in, frameIdx, options, frameEndOffset) ==
  IF IsSome(done.err) THEN done
  ELSE IF frameEndOffset > in.length THEN Fail(done, InvalidSeekError)
  ELSE parseFrames([ done EXCEPT !.offset = frameEndOffset ], in, frameIdx + 1, options)

ParseFrame(st, in, wf, frameIdx, options) ==
  IF options.strict /\ wf.magic # ASE_FRAME_MAGIC
  THEN Fail(st, AseFormatError(AseErrorCode.BAD_MAGIC))
  ELSE IF st.offset + 16 > in.length THEN Fail(st, OutOfBoundsError)
  ELSE EndFrame(parseChunks(BeginFrame(st, in, wf, frameIdx, options), wf, 1,
                            ChunkCount(wf.oldChunkCount, wf.newChunkCount), in.length, options),
                in, frameIdx, options, st.offset + wf.size)

\* the frames frameIdx.. (counted from 1 here, from 0 in the code)
parseFrames(st, in, frameIdx, options) ==
  IF IsSome(st.err) \/ frameIdx > in.header.frameCount THEN st
  ELSE IF frameIdx > Len(in.frames) \/ st.offset + 6 > in.length THEN Fail(st, OutOfBoundsError)
  ELSE ParseFrame(st, in, in.frames[frameIdx], frameIdx, options)

\* the state parseAseprite starts the frames in, after the header
StartState(headerErr) ==
  [ err |-> headerErr, offset |-> 128, frames |-> <<>>, layers |-> <<>>, tags |-> <<>>,
    slices |-> <<>>, tilesets |-> <<>>, unknownChunks |-> <<>>, oldPaletteChunks |-> <<>>,
    palette |-> None, colorProfile |-> None, externalFiles |-> None, spriteUserData |-> None,
    ctx |-> NewContext ]

\* the File assembled from the header and the collections
ResultFile(header, st) ==
  [ header |-> header, frames |-> st.frames, layers |-> st.layers, tags |-> st.tags,
    slices |-> st.slices,
    palette |-> IF ~IsSome(st.palette) /\ Len(st.oldPaletteChunks) > 0
                THEN convertOldPalette(st.oldPaletteChunks) ELSE st.palette,
    tilesets |-> st.tilesets, colorProfile |-> st.colorProfile,
    externalFiles |-> st.externalFiles, userData |-> st.spriteUserData,
    unknownChunks |-> st.unknownChunks ]

\* what a decode gives: the error thrown, or the File returned
Outcome(header, st) ==
  [ err |-> st.err, file |-> IF IsSome(st.err) THEN None ELSE Some(ResultFile(header, st)) ]

DecodeFrom(h, in, options) == Outcome(h.header, parseFrames(StartState(h.err), in, 1, options))

parseAseprite(in, options) == DecodeFrom(parseHeader(in, options.strict), in, options)

----------------------------------------------------------------------------
(* Chunk encoders: the wire fields each encoder writes for a typed value.  *)
(* 32-bit fields are written as they are (the values stay below 2^31).     *)

\* writer.fixed16_16: Math.round(value * 65536)
WriteFixed16_16(v) == v.int * 65536 + v.frac

\* compression.deflateZlib: a zlib stream wrapping the data (header and stored block)
deflateZlib(bytes) == <<120, 1>> \o bytes

encodeLayerChunk(layer) ==
  [ flags |-> U16(layer.flags), type |-> U16(layer.type), childLevel |-> U16(layer.childLevel),
    defaultWidth |-> U16(layer.defaultWidth), defaultHeight |-> U16(layer.defaultHeight),
    blendMode |-> U16(layer.blendMode), opacity |-> U8(layer.opacity),
    name |-> EncodeUtf8(layer.name),
    tilesetIndex |-> IF layer.type = LayerType.Tilemap /\ IsSome(layer.tilesetIndex)
                     THEN layer.tilesetIndex ELSE None ]

\* the bytes written for the image of a compressed cel
\* the payload of a compressed image cel, ignoring the kind of its data
CelImageDeflated(cel) ==
  [ bytes |-> IF IsSome(cel.data.decoded) THEN deflateZlib(Get(cel.data.decoded))
              ELSE deflateZlib(cel.data.bytes),
    deflated |-> TRUE ]

\* the payload of a compressed image cel, and whether deflateZlib was called for it
CelImagePayload(cel) ==
  IF cel.data.kind = "zlib" THEN [ bytes |-> cel.data.bytes, deflated |-> FALSE ]
  ELSE CelImageDeflated(cel)

\* DataView.setUint8 / setUint16 / setUint32 (little-endian) of one tile
TileToBytes(tile, bytesPerTile) ==
  [ k \in 1..bytesPerTile |-> (tile \div (256 ^ (k - 1))) % 256 ]

\* the tile data of a tilemap cel: bytesPerTile bytes per tile, none for a width that
\* setUint8/16/32 does not cover
TilesToBytes(tiles, bitsPerTile) ==
  IF bitsPerTile \in { 8, 16, 32 }
  THEN Concat([ i \in 1..Len(tiles) |-> TileToBytes(tiles[i], bitsPerTile \div 8) ])
  ELSE [ i \in 1..((Len(tiles) * bitsPerTile) \div 8) |-> 0 ]

\* the payload of a tilemap cel, and whether deflateZlib was called for it
CelTilemapPayload(cel) ==
  IF cel.data.kind = "zlib" THEN [ bytes |-> cel.data.bytes, deflated |-> FALSE ]
  ELSE IF IsSome(cel.decodedTiles)
  THEN [ bytes |-> deflateZlib(TilesToBytes(Get(cel.decodedTiles), cel.bitsPerTile)),
         deflated |-> TRUE ]
  ELSE [ bytes |-> <<>>, deflated |-> FALSE ]

encodeCelChunk(cel) ==
  LET prefix == [ layerIndex |-> U16(cel.layerIndex), x |-> U16(cel.x), y |-> U16(cel.y),
                  opacity |-> U8(cel.opacity), type |-> U16(cel.type),
                  zIndex |-> U16(cel.zIndex) ]
  IN CASE cel.type = CelType.RawImage ->
            Extend(prefix, [ width |-> U16(cel.width), height |-> U16(cel.height),
                             bytes |-> cel.data.bytes ])
       [] cel.type = CelType.Linked ->
            Extend(prefix, [ linkedFrameIndex |-> U16(cel.linkedFrameIndex) ])
       [] cel.type = CelType.CompressedImage ->
            Extend(prefix, [ width |-> U16(cel.width), height |-> U16(cel.height),
                             bytes |-> CelImagePayload(cel).bytes ])
       [] cel.type = CelType.CompressedTilemap ->
            Extend(prefix, [ width |-> U16(cel.width), height |-> U16(cel.height),
                             bitsPerTile |-> U16(cel.bitsPerTile), masks |-> cel.masks,
                             bytes |-> CelTilemapPayload(cel).bytes ])
       [] OTHER -> Extend(prefix, [ bytes |-> <<>> ])

encodeCelExtraChunk(extra) ==
  [ flags |-> extra.flags, preciseX |-> WriteFixed16_16(extra.preciseX),
    preciseY |-> WriteFixed16_16(extra.preciseY), celWidth |-> WriteFixed16_16(extra.celWidth),
    celHeight |-> WriteFixed16_16(extra.celHeight) ]

\* one palette entry: the name is written only when it is defined and not empty
encodePaletteEntry(entry) ==
  LET e == Get(entry)
      hasName == IsSome(e.name) /\ Len(Get(e.name)) > 0
  IN [ flags |-> IF hasName THEN 1 ELSE 0, r |-> U8(e.r), g |-> U8(e.g), b |-> U8(e.b),
       a |-> U8(e.a), name |-> IF hasName THEN EncodeUtf8(Get(e.name)) ELSE <<>> ]

\* reading entry.name of a hole of palette.entries raises a TypeError
encodePaletteChunk(palette) ==
  IF \E i \in 1..Len(palette.entries) : ~IsSome(palette.entries[i])
  THEN [ err |-> Some(TypeError("Cannot read properties of undefined")), data |-> None ]
  ELSE [ err |-> None,
         data |-> Some([ size |-> palette.size, firstIndex |-> palette.firstIndex,
                         lastIndex |-> palette.lastIndex,
                         entries |-> Map(encodePaletteEntry, palette.entries) ]) ]

encodeTag(tag) ==
  [ fromFrame |-> U16(tag.fromFrame), toFrame |-> U16(tag.toFrame),
    direction |-> U8(tag.direction), repeat |-> U16(tag.repeat), r |-> U8(tag.color.r),
    g |-> U8(tag.color.g), b |-> U8(tag.color.b), name |-> EncodeUtf8(tag.name) ]

encodeTagsChunk(tags) == [ tags |-> Map(encodeTag, tags) ]

\* `"-" in value` for a string
HasDash(s) == \E i \in 1..Len(s) : s[i] = 45

\* the wire type chosen for a value: for an integer the smallest unsigned or signed
\* type that holds it, Uint32 above 65535 and Int32 below -32768 whatever its size;
\* a placeholder object of an unknown type matches no case and gets Null
getPropertyType(value) ==
  CASE value.k = "null" -> PropertyType.Null
    [] value.k = "boolean" -> PropertyType.Bool
    [] value.k = "bigint" -> IF ~value.negative THEN PropertyType.Uint64 ELSE PropertyType.Int64
    [] value.k = "number" ->
         IF value.frac = 0
         THEN IF value.hi >= 0
              THEN IF value.hi = 0 /\ value.lo <= 255 THEN PropertyType.Uint8
                   ELSE IF value.hi = 0 THEN PropertyType.Uint16
                   ELSE PropertyType.Uint32
              ELSE IF value.hi = 0 - 1 /\ value.lo >= 65408 THEN PropertyType.Int8
                   ELSE IF value.hi = 0 - 1 /\ value.lo >= 32768 THEN PropertyType.Int16
                   ELSE PropertyType.Int32
         ELSE PropertyType.Double
    [] value.k = "string" ->
         IF Len(value.s) = 36 /\ HasDash(value.s) THEN PropertyType.UUID
         ELSE PropertyType.String
    [] value.k = "array" -> PropertyType.Vector
    [] value.k = "map" -> PropertyType.PropertiesMap
    [] value.k = "object" ->
         IF {"width", "height"} \subseteq DOMAIN value.o
         THEN (IF {"x", "y"} \subseteq DOMAIN value.o THEN PropertyType.Rect
               ELSE PropertyType.Size)
         ELSE IF {"x", "y"} \subseteq DOMAIN value.o THEN PropertyType.Point
         ELSE PropertyType.Null
    [] OTHER -> PropertyType.Null

\* the integer a DataView integer setter takes from a value: the number truncated
\* towards zero, 0 for what is not a number
Truncated(value) ==
  IF value.k # "number" THEN Num(0, 0, 0)
  ELSE IF value.frac # 0 /\ value.hi < 0
    THEN (IF value.lo = 65535 THEN Num(value.hi + 1, 0, 0) ELSE Num(value.hi, value.lo + 1, 0))
  ELSE Num(value.hi, value.lo, 0)

\* DataView.setInt32 / setUint32: the halves of the value modulo 2^32
WriteI32(value) == [ hi |-> U16(Truncated(value).hi), lo |-> Truncated(value).lo ]

\* the value of a hexadecimal digit, -1 for any other character
HexValue(c) ==
  IF c \in 48..57 THEN c - 48
  ELSE IF c \in 97..102 THEN c - 87
  ELSE IF c \in 65..70 THEN c - 55
  ELSE 0 - 1

\* parseInt(pair, 16) stored in a Uint8Array: the digits up to the first character
\* that is none, 0 when there is no digit
HexByte(hi, lo) ==
  IF HexValue(hi) < 0 THEN 0
  ELSE IF HexValue(lo) < 0 THEN HexValue(hi)
  ELSE HexValue(hi) * 16 + HexValue(lo)

NotDash(c) == c # 45

\* value.replace(/-/g, "")
UuidHex(s) == SelectSeq(s, NotDash)

\* writer.uuid: the 16 bytes of the 32 characters left without the dashes
WriteUuid(s) == [ i \in 1..16 |-> HexByte(UuidHex(s)[2 * i - 1], UuidHex(s)[2 * i]) ]

RECURSIVE encodePropertyValue(_, _)

\* the value written for a value of the chosen type.  The elements of a vector are
\* all written with the type chosen for the first one.
encodePropertyValue(value, propType) ==
  CASE propType = PropertyType.Bool ->
         [ hi |-> 0, lo |-> IF value.k = "boolean" /\ value.b THEN 1 ELSE 0 ]
    [] propType = PropertyType.Int8 -> [ hi |-> 0, lo |-> U8(Truncated(value).lo + 128) ]
    [] propType = PropertyType.Uint8 -> [ hi |-> 0, lo |-> U8(Truncated(value).lo) ]
    [] propType = PropertyType.Int16 -> [ hi |-> 0, lo |-> Truncated(value).lo ]
    [] propType = PropertyType.Uint16 -> [ hi |-> 0, lo |-> Truncated(value).lo ]
    [] propType = PropertyType.Int32 -> WriteI32(value)
    [] propType = PropertyType.Uint32 -> WriteI32(value)
    [] propType \in {PropertyType.Int64, PropertyType.Uint64} -> value.words
    [] propType = PropertyType.Fixed -> [ hi |-> value.lo, lo |-> value.frac ]
    [] propType \in {PropertyType.Float, PropertyType.Double} ->
         [ hi |-> value.hi, lo |-> value.lo, frac |-> value.frac ]
    [] propType = PropertyType.String -> EncodeUtf8(value.s)
    [] propType = PropertyType.Point ->
         [ x |-> WriteI32(value.o.x), y |-> WriteI32(value.o.y) ]
    [] propType = PropertyType.Size ->
         [ width |-> WriteI32(value.o.width), height |-> WriteI32(value.o.height) ]
    [] propType = PropertyType.Rect ->
         [ x |-> WriteI32(value.o.x), y |-> WriteI32(value.o.y),
           width |-> WriteI32(value.o.width), height |-> WriteI32(value.o.height) ]
    [] propType = PropertyType.Vector ->
         [ elementType |-> IF Len(value.elements) > 0 THEN getPropertyType(value.elements[1])
                           ELSE PropertyType.Null,
           elements |-> [ i \in 1..Len(value.elements) |->
                          encodePropertyValue(value.elements[i],
                                              getPropertyType(value.elements[1])) ] ]
    [] propType = PropertyType.PropertiesMap ->
         [ i \in 1..Len(value.entries) |->
           [ name |-> EncodeUtf8(value.entries[i].key),
             type |-> getPropertyType(value.entries[i].value),
             value |-> encodePropertyValue(value.entries[i].value,
                                           getPropertyType(value.entries[i].value)) ] ]
    [] propType = PropertyType.UUID -> WriteUuid(value.s)
    [] OTHER -> [ hi |-> 0, lo |-> 0 ]

RECURSIVE PropertyValueThrows(_, _)

\* encodePropertyValue throws: writer.uuid got a string that does not leave 32
\* characters without its dashes
PropertyValueThrows(value, propType) ==
  CASE propType = PropertyType.UUID -> Len(UuidHex(value.s)) # 32
    [] propType = PropertyType.Vector ->
         \E i \in 1..Len(value.elements) :
            PropertyValueThrows(value.elements[i], getPropertyType(value.elements[1]))
    [] propType = PropertyType.PropertiesMap ->
         \E i \in 1..Len(value.entries) :
            PropertyValueThrows(value.entries[i].value,
                                getPropertyType(value.entries[i].value))
    [] OTHER -> FALSE

encodeProperty(entry) ==
  [ name |-> EncodeUtf8(entry.key), type |-> getPropertyType(entry.value),
    value |-> encodePropertyValue(entry.value, getPropertyType(entry.value)) ]

encodeExtension(entry) ==
  [ extensionId |-> ParseInt(entry.key.id, 0), props |-> Map(encodeProperty, entry.value) ]

\* encodePropertiesMap throws on one of its values
PropertiesThrow(properties) ==
  \E e \in 1..Len(properties) : \E q \in 1..Len(properties[e].value) :
     PropertyValueThrows(properties[e].value[q].value,
                         getPropertyType(properties[e].value[q].value))

encodePropertiesMap(properties) == Map(encodeExtension, properties)

\* text is written only when it is a non-empty string; color and properties when defined
encodeUserDataChunk(userData) ==
  LET hasText == IsSome(userData.text) /\ Len(Get(userData.text)) > 0
  IN [ flags |-> (IF hasText THEN 1 ELSE 0) + (IF IsSome(userData.color) THEN 2 ELSE 0)
                 + (IF IsSome(userData.properties) THEN 4 ELSE 0),
       text |-> IF hasText THEN EncodeUtf8(Get(userData.text)) ELSE <<>>,
       color |-> IF IsSome(userData.color)
                 THEN Some([ r |-> U8(Get(userData.color).r), g |-> U8(Get(userData.color).g),
                             b |-> U8(Get(userData.color).b), a |-> U8(Get(userData.color).a) ])
                 ELSE None,
       properties |-> IF IsSome(userData.properties)
                      THEN encodePropertiesMap(Get(userData.properties)) ELSE <<>> ]

encodeSliceKey(flags, key) ==
  [ frameIndex |-> key.frameIndex, x |-> key.x, y |-> key.y, width |-> key.width,
    height |-> key.height,
    center |-> IF HasBit(flags, 1) /\ IsSome(key.center) THEN key.center ELSE None,
    pivot |-> IF HasBit(flags, 2) /\ IsSome(key.pivot) THEN key.pivot ELSE None ]

encodeSliceChunk(slice) ==
  [ name |-> EncodeUtf8(slice.name), flags |-> slice.flags,
    keys |-> [ i \in 1..Len(slice.keys) |-> encodeSliceKey(slice.flags, slice.keys[i]) ] ]

encodeTilesetChunk(tileset) ==
  [ id |-> tileset.id, flags |-> tileset.flags, tileCount |-> tileset.tileCount,
    tileWidth |-> U16(tileset.tileWidth), tileHeight |-> U16(tileset.tileHeight),
    baseIndex |-> U16(tileset.baseIndex), name |-> EncodeUtf8(tileset.name),
    externalFileId |-> IF HasBit(tileset.flags, 1)
                       THEN (IF IsSome(tileset.externalFileId) THEN tileset.externalFileId
                             ELSE Some(0))
                       ELSE None,
    externalTilesetId |-> IF HasBit(tileset.flags, 1)
                          THEN (IF IsSome(tileset.externalTilesetId)
                                THEN tileset.externalTilesetId ELSE Some(0))
                          ELSE None,
    compressedData |-> IF HasBit(tileset.flags, 2) /\ IsSome(tileset.compressedData)
                       THEN tileset.compressedData ELSE None ]

encodeColorProfileChunk(profile) ==
  [ type |-> U16(profile.type), flags |-> U16(profile.flags),
    gamma |-> IF IsSome(profile.gamma) THEN WriteFixed16_16(Get(profile.gamma)) ELSE 0,
    iccData |-> IF profile.type = 2 /\ IsSome(profile.iccData) THEN profile.iccData ELSE None ]

encodeExternalFile(f) ==
  [ id |-> f.id, type |-> U8(f.type), fileName |-> EncodeUtf8(f.fileName) ]

encodeExternalFilesChunk(files) == [ files |-> Map(encodeExternalFile, files) ]

\* the chunk header: the declared size is the payload length and the 6 header bytes
\* a faulty variant of wrapChunk: the declared size leaves out the 6 header bytes
wrapChunkPayloadSize(chunkType, data) ==
  [ size |-> PayloadLen(chunkType, data), type |-> chunkType, data |-> data ]

wrapChunk(chunkType, data) ==
  [ size |-> PayloadLen(chunkType, data) + 6, type |-> chunkType, data |-> data ]

----------------------------------------------------------------------------
(* encodeAseprite: the header, the frame headers and the two modes.  An    *)
(* encoding step gives the chunks it wrote, or the error it threw.         *)

Ok(chunks) == [ err |-> None, chunks |-> chunks ]

Err(e) == [ err |-> Some(e), chunks |-> <<>> ]

\* the steps rs in order: the chunks of all of them, or the first error
Then(first, rest) ==
  IF IsSome(first.err) THEN first
  ELSE IF IsSome(rest.err) THEN rest
  ELSE Ok(first.chunks \o rest.chunks)

RECURSIVE All(_)
All(rs) == IF Len(rs) = 0 THEN Ok(<<>>) ELSE Then(Head(rs), All(Tail(rs)))

\* `value || fallback` on a number
OrElse(value, fallback) == IF value = 0 THEN fallback ELSE value

encodeHeader(f, fileSize) ==
  LET header == f.header
  IN [ fileSize |-> fileSize, magic |-> ASE_FILE_MAGIC, frameCount |-> U16(header.frameCount),
       width |-> U16(header.width), height |-> U16(header.height),
       colorDepth |-> U16(header.colorDepth), flags |-> header.flags,
       speed |-> U16(header.speed), transparentIndex |-> U8(header.transparentIndex),
       colorCount |-> U16(header.colorCount),
       pixelWidth |-> U8(OrElse(header.pixelWidth, 1)),
       pixelHeight |-> U8(OrElse(header.pixelHeight, 1)),
       gridX |-> U16(header.gridX), gridY |-> U16(header.gridY),
       gridWidth |-> U16(OrElse(header.gridWidth, 16)),
       gridHeight |-> U16(OrElse(header.gridHeight, 16)) ]

\* a faulty variant of encodeFrameHeader: the duration field is left at 0
encodeFrameHeaderNoDuration(frameSize, chunkCount, durationMs, chunks) ==
  [ size |-> frameSize, magic |-> ASE_FRAME_MAGIC,
    oldChunkCount |-> IF chunkCount > 65534 THEN 65535 ELSE chunkCount,
    durationMs |-> 0, newChunkCount |-> chunkCount, chunks |-> chunks ]

\* a faulty variant of encodeFrameHeader: the old count is the low 16 bits of the count
encodeFrameHeaderWrapped(frameSize, chunkCount, durationMs, chunks) ==
  [ size |-> frameSize, magic |-> ASE_FRAME_MAGIC, oldChunkCount |-> chunkCount % 65536,
    durationMs |-> U16(durationMs), newChunkCount |-> chunkCount, chunks |-> chunks ]

\* the frame header and, with it, the chunks of the frame
encodeFrameHeader(frameSize, chunkCount, durationMs, chunks) ==
  [ size |-> frameSize, magic |-> ASE_FRAME_MAGIC,
    oldChunkCount |-> IF chunkCount > 65534 THEN 65535 ELSE chunkCount,
    durationMs |-> U16(durationMs), newChunkCount |-> chunkCount, chunks |-> chunks ]

\* an encoded payload wrapped, or the error its encoder threw
WrapStep(chunkType, r) ==
  IF IsSome(r.err) THEN Err(Get(r.err)) ELSE Ok(<< wrapChunk(chunkType, Get(r.data)) >>)

PaletteStep(palette) == WrapStep(ChunkType.Palette, encodePaletteChunk(palette))

UserDataStep(userData) ==
  IF IsSome(userData) /\ IsSome(Get(userData).properties)
     /\ PropertiesThrow(Get(Get(userData).properties))
  THEN Err(PlainError("BinaryWriter: Invalid UUID length"))
  ELSE IF IsSome(userData)
  THEN Ok(<< wrapChunk(ChunkType.UserData, encodeUserDataChunk(Get(userData))) >>)
  ELSE Ok(<<>>)

encodeChunkFromPreserved(f, chunk) ==
  IF "rawData" \in DOMAIN chunk
  THEN Ok(<< wrapChunk(chunk.type, [ rawData |-> chunk.rawData ]) >>)
  ELSE CASE chunk.type = ChunkType.Layer ->
              Ok(<< wrapChunk(ChunkType.Layer, encodeLayerChunk(f.layers[chunk.layerRef])) >>)
         [] chunk.type = ChunkType.Cel ->
              Ok(<< wrapChunk(ChunkType.Cel,
                              encodeCelChunk(f.frames[chunk.celFrame].cels[chunk.celRef])) >>)
         [] chunk.type = ChunkType.CelExtra ->
              Ok(<< wrapChunk(ChunkType.CelExtra, encodeCelExtraChunk(chunk.extra)) >>)
         [] chunk.type = ChunkType.Palette -> PaletteStep(chunk.palette)
         [] chunk.type = ChunkType.Tags ->
              Ok(<< wrapChunk(ChunkType.Tags,
                              encodeTagsChunk(SubSeq(f.tags, chunk.tagsStart + 1,
                                                     chunk.tagsStart + chunk.tagsLen))) >>)
         [] chunk.type = ChunkType.UserData -> UserDataStep(Some(chunk.userData))
         [] chunk.type = ChunkType.Slice ->
              Ok(<< wrapChunk(ChunkType.Slice, encodeSliceChunk(f.slices[chunk.sliceRef])) >>)
         [] chunk.type = ChunkType.Tileset ->
              Ok(<< wrapChunk(ChunkType.Tileset,
                              encodeTilesetChunk(f.tilesets[chunk.tilesetRef])) >>)
         [] chunk.type = ChunkType.ColorProfile ->
              Ok(<< wrapChunk(ChunkType.ColorProfile, encodeColorProfileChunk(chunk.profile)) >>)
         [] chunk.type = ChunkType.ExternalFiles ->
              Ok(<< wrapChunk(ChunkType.ExternalFiles, encodeExternalFilesChunk(chunk.files)) >>)
         [] OTHER -> Err(AseFormatError(AseErrorCode.BAD_CHUNK_SIZE))

\* a frame buffer: the 16 header bytes and the chunk buffers
BuildFrame(chunks, durationMs) ==
  encodeFrameHeader(16 + SumSeq(Map(ChunkBytes, chunks)), Len(chunks), durationMs, chunks)

\* the final file: the header with the total size, and the frame buffers
BuildFile(f, frames) ==
  LET fileSize == 128 + SumSeq([ i \in 1..Len(frames) |-> frames[i].size ])
  IN [ header |-> encodeHeader(f, fileSize), frames |-> frames, length |-> fileSize ]

\* the chunks of one frame in "chunks" mode
PreservedFrameChunks(f, frameIdx) ==
  LET frame == f.frames[frameIdx]
  IN IF ~IsSome(frame.chunks) THEN Err(AseFormatError(AseErrorCode.BAD_CHUNK_SIZE))
     ELSE All([ i \in 1..Len(Get(frame.chunks)) |->
                encodeChunkFromPreserved(f, Get(frame.chunks)[i]) ])

LayerSteps(f) ==
  All([ i \in 1..Len(f.layers) |->
        All(<< Ok(<< wrapChunk(ChunkType.Layer, encodeLayerChunk(f.layers[i])) >>),
               UserDataStep(f.layers[i].userData) >>) ])

TagSteps(f) ==
  IF Len(f.tags) > 0
  THEN All(<< Ok(<< wrapChunk(ChunkType.Tags, encodeTagsChunk(f.tags)) >>) >>
           \o [ i \in 1..Len(f.tags) |-> UserDataStep(f.tags[i].userData) ])
  ELSE Ok(<<>>)

SliceSteps(f) ==
  All([ i \in 1..Len(f.slices) |->
        All(<< Ok(<< wrapChunk(ChunkType.Slice, encodeSliceChunk(f.slices[i])) >>),
               UserDataStep(f.slices[i].userData) >>) ])

TileUserDataSteps(tileset) ==
  IF IsSome(tileset.tileUserData)
  THEN All([ j \in 1..Len(Get(tileset.tileUserData)) |->
             UserDataStep(Some(Get(tileset.tileUserData)[j])) ])
  ELSE Ok(<<>>)

TilesetSteps(f) ==
  All([ i \in 1..Len(f.tilesets) |->
        All(<< Ok(<< wrapChunk(ChunkType.Tileset, encodeTilesetChunk(f.tilesets[i])) >>),
               UserDataStep(f.tilesets[i].userData),
               TileUserDataSteps(f.tilesets[i]) >>) ])

UnknownSteps(f) ==
  Ok([ i \in 1..Len(f.unknownChunks) |->
       wrapChunk(f.unknownChunks[i].type, [ rawData |-> f.unknownChunks[i].rawData ]) ])

\* a faulty variant of GlobalSteps: the palette is emitted before the layers
GlobalStepsPaletteFirst(f) ==
  All(<< IF IsSome(f.palette) THEN PaletteStep(Get(f.palette)) ELSE Ok(<<>>),
         LayerSteps(f),
         IF IsSome(f.colorProfile)
         THEN Ok(<< wrapChunk(ChunkType.ColorProfile,
                              encodeColorProfileChunk(Get(f.colorProfile))) >>)
         ELSE Ok(<<>>),
         IF IsSome(f.externalFiles) /\ Len(Get(f.externalFiles)) > 0
         THEN Ok(<< wrapChunk(ChunkType.ExternalFiles,
                              encodeExternalFilesChunk(Get(f.externalFiles))) >>)
         ELSE Ok(<<>>),
         TagSteps(f), SliceSteps(f), TilesetSteps(f), UserDataStep(f.userData),
         UnknownSteps(f) >>)

\* the global chunks, emitted in the first frame
GlobalSteps(f) ==
  All(<< LayerSteps(f),
         IF IsSome(f.colorProfile)
         THEN Ok(<< wrapChunk(ChunkType.ColorProfile,
                              encodeColorProfileChunk(Get(f.colorProfile))) >>)
         ELSE Ok(<<>>),
         IF IsSome(f.externalFiles) /\ Len(Get(f.externalFiles)) > 0
         THEN Ok(<< wrapChunk(ChunkType.ExternalFiles,
                              encodeExternalFilesChunk(Get(f.externalFiles))) >>)
         ELSE Ok(<<>>),
         IF IsSome(f.palette) THEN PaletteStep(Get(f.palette)) ELSE Ok(<<>>),
         TagSteps(f), SliceSteps(f), TilesetSteps(f), UserDataStep(f.userData),
         UnknownSteps(f) >>)

CelSteps(cel) ==
  All(<< Ok(<< wrapChunk(ChunkType.Cel, encodeCelChunk(cel)) >>),
         IF IsSome(cel.extra)
         THEN Ok(<< wrapChunk(ChunkType.CelExtra, encodeCelExtraChunk(Get(cel.extra))) >>)
         ELSE Ok(<<>>),
         UserDataStep(cel.userData) >>)

\* the chunks of one frame in canonical mode
CanonicalFrameChunks(f, frameIdx) ==
  All(<< IF frameIdx = 1 THEN GlobalSteps(f) ELSE Ok(<<>>),
         All([ i \in 1..Len(f.frames[frameIdx].cels) |-> CelSteps(f.frames[frameIdx].cels[i]) ]) >>)

\* the frames from frameIdx on, or the first error
FrameChunks(f, frameIdx, m) ==
  IF m = "chunks" THEN PreservedFrameChunks(f, frameIdx) ELSE CanonicalFrameChunks(f, frameIdx)

\* a frame put before the frames that follow it, or the first error
PrependFrame(r, durationMs, rest) ==
  IF IsSome(r.err) THEN [ err |-> r.err, frames |-> <<>> ]
  ELSE IF IsSome(rest.err) THEN rest
  ELSE [ err |-> None, frames |-> << BuildFrame(r.chunks, durationMs) >> \o rest.frames ]

\* the frames from frameIdx on, or the first error
RECURSIVE EncodeFrames(_, _, _)
EncodeFrames(f, frameIdx, m) ==
  IF frameIdx > Len(f.frames) THEN [ err |-> None, frames |-> <<>> ]
  ELSE PrependFrame(FrameChunks(f, frameIdx, m), f.frames[frameIdx].durationMs,
                    EncodeFrames(f, frameIdx + 1, m))

\* what an encode gives: the error thrown, or the bytes returned
Encoded(f, r) ==
  [ err |-> r.err, out |-> IF IsSome(r.err) THEN None ELSE Some(BuildFile(f, r.frames)) ]

encodeChunksMode(f) == Encoded(f, EncodeFrames(f, 1, "chunks"))

encodeCanonicalMode(f) == Encoded(f, EncodeFrames(f, 1, "canonical"))

\* the mode encodeAseprite takes for the option `mode`
EffectiveMode(f, m) ==
  IF m = "chunks-if-present"
  THEN (IF Len(f.frames) > 0 /\ IsSome(f.frames[1].chunks) THEN "chunks" ELSE "canonical")
  ELSE m

encodeAseprite(f, m) ==
  IF EffectiveMode(f, m) = "chunks" THEN encodeChunksMode(f) ELSE encodeCanonicalMode(f)

----------------------------------------------------------------------------
(* The inputs: files assembled from a catalogue of chunks, one or more of  *)
(* each kind, with a well-formed header; files whose header deviates from  *)
(* the usual values in one field; and damaged files (wrong magic numbers,  *)
(* unsupported colour depth, truncation).  Every chunk and frame declares  *)
(* the size it has.                                                        *)

MaxChunks == 2

MaxFrames == 2

\* a chunk as it lies in an input file
WireChunk(chunkType, data) ==
  [ size |-> 6 + PayloadLen(chunkType, data), type |-> chunkType, data |-> data ]

WireLayer(layerType, name, tilesetIndex) ==
  WireChunk(ChunkType.Layer,
            [ flags |-> 3, type |-> layerType, childLevel |-> 0, defaultWidth |-> 0,
              defaultHeight |-> 0, blendMode |-> 1, opacity |-> 255, name |-> name,
              tilesetIndex |-> tilesetIndex ])

WireCelPrefix(celType) ==
  [ layerIndex |-> 0, x |-> 65535, y |-> 2, opacity |-> 128, type |-> celType, zIndex |-> 65534 ]

WireUserData(flags, text, color, properties) ==
  WireChunk(ChunkType.UserData,
            [ flags |-> flags, text |-> text, color |-> color, properties |-> properties ])

Masks == [ tileIdMask |-> 8191, xFlipMask |-> 8192, yFlipMask |-> 16384, rotationMask |-> 32768 ]

Rgba(r, g, b, a) == [ r |-> r, g |-> g, b |-> b, a |-> a ]

WirePaletteEntry(flags, name) == [ flags |-> flags, r |-> 10, g |-> 20, b |-> 30, a |-> 255, name |-> name ]

WirePalette(entries) ==
  WireChunk(ChunkType.Palette,
            [ size |-> Len(entries), firstIndex |-> 0, lastIndex |-> Len(entries) - 1,
              entries |-> entries ])

WireOldPalette(chunkType, skipCount) ==
  WireChunk(chunkType,
            [ packets |-> << [ skipCount |-> skipCount, colors |-> << [ r |-> 1, g |-> 2, b |-> 3 ] >> ] >> ])

WireTag(name) ==
  [ fromFrame |-> 0, toFrame |-> 1, direction |-> 2, repeat |-> 0, r |-> 9, g |-> 8, b |-> 7,
    name |-> name ]

\* a property of a user-data extension block: a 64-bit float holding 2^32
BigDouble ==
  [ name |-> <<107>>, type |-> PropertyType.Double,
    value |-> [ hi |-> 65536, lo |-> 0, frac |-> 0 ] ]

SmallUint == [ name |-> <<110>>, type |-> PropertyType.Uint16, value |-> [ hi |-> 0, lo |-> 300 ] ]

Catalogue ==
  << WireLayer(LayerType.Normal, <<66, 71>>, None),
     WireLayer(LayerType.Tilemap, <<84, 255>>, Some(0)),
     WireChunk(ChunkType.Cel, Extend(WireCelPrefix(CelType.RawImage),
                                     [ width |-> 1, height |-> 1, bytes |-> <<1, 2, 3, 4>> ])),
     WireChunk(ChunkType.Cel, Extend(WireCelPrefix(CelType.Linked), [ linkedFrameIndex |-> 0 ])),
     WireChunk(ChunkType.Cel, Extend(WireCelPrefix(CelType.CompressedImage),
                                     [ width |-> 1, height |-> 1, bytes |-> <<120, 156, 5>> ])),
     WireChunk(ChunkType.Cel, Extend(WireCelPrefix(CelType.CompressedTilemap),
                                     [ width |-> 1, height |-> 1, bitsPerTile |-> 32,
                                       masks |-> Masks, bytes |-> <<120, 156>> ])),
     WireChunk(ChunkType.CelExtra,
               [ flags |-> 1, preciseX |-> 98304, preciseY |-> 0 - 32768, celWidth |-> 65536,
                 celHeight |-> 1 ]),
     WirePalette(<< WirePaletteEntry(0, <<>>), WirePaletteEntry(1, <<82>>) >>),
     WirePalette(<< WirePaletteEntry(1, <<>>) >>),
     WireOldPalette(ChunkType.OldPalette1, 0),
     WireOldPalette(ChunkType.OldPalette2, 1),
     WireChunk(ChunkType.Tags, [ tags |-> << WireTag(<<97>>), WireTag(<<98>>) >> ]),
     WireUserData(3, <<104, 105>>, Some(Rgba(1, 2, 3, 4)), <<>>),
     WireUserData(4, <<>>, None, << [ extensionId |-> 12, props |-> << SmallUint, BigDouble >> ] >>),
     WireChunk(ChunkType.Slice,
               [ name |-> <<115>>, flags |-> 3,
                 keys |-> << [ frameIndex |-> 0, x |-> 1, y |-> 0 - 1, width |-> 4, height |-> 4,
                               center |-> Some([ x |-> 1, y |-> 1, width |-> 2, height |-> 2 ]),
                               pivot |-> Some([ x |-> 2, y |-> 2 ]) ] >> ]),
     WireChunk(ChunkType.Tileset,
               [ id |-> 0, flags |-> 3, tileCount |-> 1, tileWidth |-> 8, tileHeight |-> 8,
                 baseIndex |-> 65535, name |-> <<116>>, externalFileId |-> Some(5),
                 externalTilesetId |-> Some(6), compressedData |-> Some(<<120, 156, 1>>) ]),
     WireChunk(ChunkType.ColorProfile,
               [ type |-> 1, flags |-> 1, gamma |-> 144179, iccData |-> None ]),
     WireChunk(ChunkType.ExternalFiles,
               [ files |-> << [ id |-> 5, type |-> 1, fileName |-> <<102>> ] >> ]),
     WireChunk(39321, [ rawData |-> <<7, 8, 9>> ]),
     WireChunk(ChunkType.Mask, [ rawData |-> <<5, 5>> ]) >>

\* a Cel chunk whose variant tag is none of 0..3
BadCel == WireChunk(ChunkType.Cel, Extend(WireCelPrefix(4), [ bytes |-> <<1, 2>> ]))

TypicalHeader ==
  [ fileSize |-> 0, magic |-> ASE_FILE_MAGIC, frameCount |-> 1, width |-> 4, height |-> 4,
    colorDepth |-> 32, flags |-> 1, speed |-> 100, transparentIndex |-> 0, colorCount |-> 0,
    pixelWidth |-> 1, pixelHeight |-> 1, gridX |-> 0, gridY |-> 0, gridWidth |-> 16,
    gridHeight |-> 16 ]

\* frame number i of an input file: the first frame declares a duration, the later ones 0
WireFrame(i, chunks, frameMagic) ==
  [ size |-> 16 + SumSeq(Map(ChunkBytes, chunks)), magic |-> frameMagic,
    oldChunkCount |-> Len(chunks), durationMs |-> IF i = 1 THEN 50 ELSE 0,
    newChunkCount |-> Len(chunks), chunks |-> chunks ]

\* an input of the given frames; a cut-off is the number of bytes a truncated byte
\* array holds of it
WireFile(header, frames, cutoff) ==
  LET total == FileBytes([ frames |-> frames ])
  IN [ header |-> [ header EXCEPT !.fileSize = total ], frames |-> frames,
       length |-> IF IsSome(cutoff) /\ Get(cutoff) < total THEN Get(cutoff) ELSE total ]

\* the sequences of at most n chunks of the catalogue
ChunkSeqs(n) == UNION { [ 1..k -> 1..Len(Catalogue) ] : k \in 0..n }

\* the ways to cut a sequence of n chunks into the frames of a file
RECURSIVE Cuts(_, _)
Cuts(n, frameCount) ==
  IF frameCount = 1 THEN { << n >> }
  ELSE UNION { { << k >> \o rest : rest \in Cuts(n - k, frameCount - 1) } : k \in 0..n }

RECURSIVE CutFrames(_, _, _, _)
CutFrames(chunks, cut, i, from) ==
  IF i > Len(cut) THEN <<>>
  ELSE << WireFrame(i, [ j \in 1..cut[i] |-> Catalogue[chunks[from + j]] ], ASE_FRAME_MAGIC) >>
       \o CutFrames(chunks, cut, i + 1, from + cut[i])

CodecInputs ==
  UNION { UNION { { WireFile([ TypicalHeader EXCEPT !.frameCount = c ],
                             CutFrames(cs, cut, 1, 0), None) : cut \in Cuts(Len(cs), c) } :
                  c \in 1..MaxFrames } : cs \in ChunkSeqs(MaxChunks) }

\* headers that differ from the usual one in one field: its smallest and a large value
HeaderVariants ==
  { [ TypicalHeader EXCEPT !.frameCount = v ] : v \in {0, 2} }
  \cup { [ TypicalHeader EXCEPT !.width = v ] : v \in {0, 65535} }
  \cup { [ TypicalHeader EXCEPT !.height = v ] : v \in {0, 65535} }
  \cup { [ TypicalHeader EXCEPT !.flags = v ] : v \in {0, 65537} }
  \cup { [ TypicalHeader EXCEPT !.speed = v ] : v \in {0, 65535} }
  \cup { [ TypicalHeader EXCEPT !.transparentIndex = v ] : v \in {255} }
  \cup { [ TypicalHeader EXCEPT !.colorCount = v ] : v \in {256, 65535} }
  \cup { [ TypicalHeader EXCEPT !.pixelWidth = v ] : v \in {0, 255} }
  \cup { [ TypicalHeader EXCEPT !.pixelHeight = v ] : v \in {0, 255} }
  \cup { [ TypicalHeader EXCEPT !.gridX = v ] : v \in {1, 65535} }
  \cup { [ TypicalHeader EXCEPT !.gridY = v ] : v \in {1, 65535} }
  \cup { [ TypicalHeader EXCEPT !.gridWidth = v ] : v \in {0, 65535} }
  \cup { [ TypicalHeader EXCEPT !.gridHeight = v ] : v \in {0, 65535} }
  \cup { [ TypicalHeader EXCEPT !.colorDepth = v ] : v \in {8, 16} }

HeaderInputs ==
  { WireFile(h, << WireFrame(1, << Catalogue[1] >>, ASE_FRAME_MAGIC) >>, None) :
      h \in HeaderVariants }

\* the numbers of bytes a truncated input holds: cuts inside the header, inside the
\* first frame header, inside the first chunk header and inside its payload
Cutoffs == { None, Some(4), Some(10), Some(100), Some(132), Some(140), Some(147), Some(160) }

DamagedChunks == { << Catalogue[1] >>, << BadCel >>, << Catalogue[1], BadCel >> }

DamagedInputs ==
  { WireFile([ TypicalHeader EXCEPT !.magic = m, !.colorDepth = d, !.frameCount = 2 ],
             << WireFrame(1, cs, ASE_FRAME_MAGIC), WireFrame(2, <<>>, fm) >>, cutoff) :
      m \in {ASE_FILE_MAGIC, 0}, d \in {32, 24}, fm \in {ASE_FRAME_MAGIC, 4660},
      cs \in DamagedChunks, cutoff \in Cutoffs }

----------------------------------------------------------------------------
(* The state machine: an input is decoded, the File may be edited once,    *)
(* is encoded, the output decoded again with the same options, and that    *)
(* File encoded in canonical mode.                                         *)

NoEdit == [ kind |-> "none", index |-> 0, duration |-> 0, name |-> <<>> ]

Modes == { "chunks", "canonical", "chunks-if-present" }

\* the values an edit gives a frame duration, and the name it gives a layer
EditDurations == { 0, 250, 65543 }

EditName == <<78, 101, 119>>

Init ==
  /\ input \in CodecInputs \cup HeaderInputs \cup DamagedInputs
  /\ pc = "start"
  /\ opts = DEFAULT_OPTIONS
  /\ file = None /\ err = None
  /\ edit = NoEdit
  /\ mode = "chunks-if-present"
  /\ out = None /\ encErr = None
  /\ file2 = None /\ err2 = None
  /\ out2 = None /\ encErr2 = None
  /\ ret = None /\ inflateCalls = 0

\* parseAseprite(bytes, { strict, preserveChunks })
Parse(strict, preserveChunks) ==
  /\ pc = "start"
  /\ opts' = [ preserveChunks |-> preserveChunks, strict |-> strict ]
  /\ \E r \in { parseAseprite(input, opts') } : file' = r.file /\ err' = r.err
  /\ pc' = "parsed"
  /\ UNCHANGED <<input, edit, mode, out, encErr, file2, err2, out2, encErr2, ret, inflateCalls>>

\* file.frames[i].durationMs = d
EditDuration(i, d) ==
  /\ pc = "parsed" /\ IsSome(file) /\ edit = NoEdit
  /\ i \in 1..Len(Get(file).frames)
  /\ file' = Some([ Get(file) EXCEPT !.frames[i].durationMs = d ])
  /\ edit' = [ kind |-> "duration", index |-> i, duration |-> d, name |-> <<>> ]
  /\ UNCHANGED <<pc, input, opts, err, mode, out, encErr, file2, err2, out2, encErr2, ret, inflateCalls>>

\* file.layers[i].name = name
EditLayerName(i, name) ==
  /\ pc = "parsed" /\ IsSome(file) /\ edit = NoEdit
  /\ i \in 1..Len(Get(file).layers)
  /\ file' = Some([ Get(file) EXCEPT !.layers[i].name = name ])
  /\ edit' = [ kind |-> "name", index |-> i, duration |-> 0, name |-> name ]
  /\ UNCHANGED <<pc, input, opts, err, mode, out, encErr, file2, err2, out2, encErr2, ret, inflateCalls>>

\* encodeAseprite(file, { mode: m })
Encode(m) ==
  /\ pc = "parsed" /\ IsSome(file)
  /\ mode' = m
  /\ \E r \in { encodeAseprite(Get(file), m) } : out' = r.out /\ encErr' = r.err
  /\ pc' = "encoded"
  /\ UNCHANGED <<input, opts, file, err, edit, file2, err2, out2, encErr2, ret, inflateCalls>>

\* parseAseprite of the encoder's output, with the options of the first decode
Reparse ==
  /\ pc = "encoded" /\ IsSome(out)
  /\ \E r \in { parseAseprite(Get(out), opts) } : file2' = r.file /\ err2' = r.err
  /\ pc' = "reparsed"
  /\ UNCHANGED <<input, opts, file, err, edit, mode, out, encErr, out2, encErr2, ret, inflateCalls>>

\* the second encoding of a canonical round trip of an unedited File
Reencode ==
  /\ pc = "reparsed" /\ IsSome(file2) /\ edit = NoEdit
  /\ EffectiveMode(Get(file), mode) = "canonical"
  /\ \E r \in { encodeCanonicalMode(Get(file2)) } : out2' = r.out /\ encErr2' = r.err
  /\ pc' = "reencoded"
  /\ UNCHANGED <<input, opts, file, err, edit, mode, out, encErr, file2, err2, ret, inflateCalls>>

Next ==
  \/ \E strict \in BOOLEAN, preserveChunks \in BOOLEAN : Parse(strict, preserveChunks)
  \/ \E i \in 1..MaxFrames, d \in EditDurations : EditDuration(i, d)
  \/ \E i \in 1..MaxChunks : EditLayerName(i, EditName)
  \/ \E m \in Modes : Encode(m)
  \/ Reparse
  \/ Reencode

Spec == Init /\ [][Next]_vars

----------------------------------------------------------------------------
(* Round trips                                                             *)

\* the mode the encoding of the current File ran in
Canonical == EffectiveMode(Get(file), mode) = "canonical"

Preserved == EffectiveMode(Get(file), mode) = "chunks"

\* the parts of a File a round trip is compared in
LayerView(l) ==
  [ name |-> l.name, type |-> l.type, childLevel |-> l.childLevel, opacity |-> l.opacity,
    blendMode |-> l.blendMode ]

CelView(c) == [ type |-> c.type, x |-> c.x, y |-> c.y, opacity |-> c.opacity, zIndex |-> c.zIndex ]

FrameView(fr) == [ durationMs |-> fr.durationMs, cels |-> Map(CelView, fr.cels) ]

TagView(t) ==
  [ fromFrame |-> t.fromFrame, toFrame |-> t.toFrame, direction |-> t.direction,
    repeat |-> t.repeat, color |-> t.color, name |-> t.name ]

SliceView(sl) == [ name |-> sl.name, flags |-> sl.flags, keys |-> sl.keys ]

TilesetView(t) ==
  [ id |-> t.id, flags |-> t.flags, tileCount |-> t.tileCount, tileWidth |-> t.tileWidth,
    tileHeight |-> t.tileHeight, baseIndex |-> t.baseIndex, name |-> t.name,
    externalFileId |-> t.externalFileId, externalTilesetId |-> t.externalTilesetId,
    compressedData |-> t.compressedData ]

Structure(f) ==
  [ layers |-> Map(LayerView, f.layers), frames |-> Map(FrameView, f.frames),
    tags |-> Map(TagView, f.tags), slices |-> Map(SliceView, f.slices),
    tilesets |-> Map(TilesetView, f.tilesets), palette |-> f.palette ]

\* C1: whenever a decoded File has been encoded in canonical mode, the encoding
\* succeeded, and once it is decoded again the File obtained equals the first one in
\* its layers (count, order, name, type, child level, opacity, blend mode), its frames
\* (count, durations, cels with variant, offsets, opacity, z-index) and its tags,
\* slices, tilesets and palette.
C1_CanonicalRoundTrip ==
  /\ (pc = "encoded" /\ edit = NoEdit /\ Canonical) => IsSome(out)
  /\ (pc = "reparsed" /\ edit = NoEdit /\ Canonical) =>
        IsSome(file2) /\ Structure(Get(file2)) = Structure(Get(file))

\* the twelve chunk kinds parseChunk has a parser for
KnownKinds == ChunkTypeValues \ { ChunkType.Mask, ChunkType.Path }

\* the frames of the input a decode visits: as many as the header counts
DecodedFrames(in) == SubSeq(in.frames, 1, in.header.frameCount)

IsUnknownKind(c) == c.type \notin KnownKinds

RawOf(c) == [ type |-> c.type, rawData |-> c.data.rawData ]

UnknownOfFrame(wf) == Map(RawOf, SelectSeq(wf.chunks, IsUnknownKind))

\* the chunks of the input whose type code is none of the twelve known kinds
UnknownChunksOf(in) == Concat(Map(UnknownOfFrame, DecodedFrames(in)))

\* C2: after decode, encode (either mode) and decode again, the File lists as unknown
\* chunks exactly the chunks of the input whose type code is not one of the twelve
\* known kinds, in the input's order, each with its type code and its payload.
C2_UnknownChunksSurvive ==
  (pc = "reparsed" /\ edit = NoEdit) =>
     IsSome(file2) /\ Get(file2).unknownChunks = UnknownChunksOf(input)

\* C3: preserved-mode encode of a File decoded with preserveChunks = true succeeds,
\* whatever chunks the input held; it raises no error.
C3_PreservedEncodeSucceeds ==
  (pc = "encoded" /\ opts.preserveChunks /\ Preserved) => IsSome(out) /\ encErr = None

TypeOf(c) == c.type

FrameTypes(wf) == Map(TypeOf, wf.chunks)

\* the chunk type codes of each frame, in order
TypeCodes(frames) == Map(FrameTypes, frames)

\* C4: preserved-mode encode of a File decoded with preserveChunks = true gives an
\* output whose frames hold, chunk for chunk and in order, the type codes of the
\* frames of the input.
C4_OneChunkPerElement ==
  (pc = "encoded" /\ opts.preserveChunks /\ Preserved) =>
     IsSome(out) /\ TypeCodes(Get(out).frames) = TypeCodes(DecodedFrames(input))

\* C5: the canonical encoding of the File decoded from a canonical encoding equals
\* that canonical encoding, byte for byte.
C5_CanonicalIdempotent == (pc = "reencoded") => IsSome(out2) /\ Get(out2) = Get(out)

\* the header without the file size
HeaderView(h) == [ h EXCEPT !.fileSize = 0 ]

\* C6: the File decoded from an encoding of a File has every header field but
\* fileSize equal to that File's.
C6_HeaderRoundTrip ==
  (pc = "reparsed" /\ edit = NoEdit) =>
     IsSome(file2) /\ HeaderView(Get(file2).header) = HeaderView(Get(file).header)

----------------------------------------------------------------------------
(* Edits between decode and encode                                         *)

\* the default options of encodeAseprite after a decode that kept the chunk lists
DefaultEncodeOfPreserved == opts.preserveChunks /\ mode = "chunks-if-present"

\* the input holds an old palette chunk in a frame the decode visits
HasOldPalette(in) ==
  \E i \in 1..Len(in.frames) :
    /\ i <= in.header.frameCount
    /\ \E j \in 1..Len(in.frames[i].chunks) :
         in.frames[i].chunks[j].type \in { ChunkType.OldPalette1, ChunkType.OldPalette2 }

\* the duration a decode gives a frame whose duration was set to d before the encode
Readback(d, speed) == IF U16(d) = 0 THEN speed ELSE U16(d)

----------------------------------------------------------------------------
(* Sizes in the output                                                     *)

ChunkSize(c) == c.size

FrameSize(fr) == fr.size

FrameSizeOk(fr) ==
  /\ fr.size = 16 + SumSeq(Map(ChunkSize, fr.chunks))
  /\ \A j \in 1..Len(fr.chunks) :
       fr.chunks[j].size = 6 + PayloadLen(fr.chunks[j].type, fr.chunks[j].data)

SizesConsistent(o) ==
  /\ o.header.fileSize = o.length
  /\ o.length = 128 + SumSeq(Map(FrameSize, o.frames))
  /\ \A i \in 1..Len(o.frames) : FrameSizeOk(o.frames[i])

\* C8: in every output of encode, in either mode, the header's fileSize is the output
\* length and is 128 plus the declared sizes of the frames, each frame's declared size
\* is 16 plus the declared sizes of its chunks, and each chunk's declared size is 6
\* plus the length of its payload.
C8_SizesConsistent ==
  /\ IsSome(out) => SizesConsistent(Get(out))
  /\ IsSome(out2) => SizesConsistent(Get(out2))

\* a two-frame output with two chunks in its first frame has been encoded
C8_Witness ==
  /\ pc = "encoded" /\ IsSome(out)
  /\ Len(Get(out).frames) = 2 /\ Len(Get(out).frames[1].chunks) = 2
  /\ Get(out).length > 128 + 16 + 16 + 12

----------------------------------------------------------------------------
(* Strict and non-strict decode of damaged inputs                          *)

Complete(in) == in.length = FileBytes(in)

HasInvalidCel(in) ==
  \E i \in 1..Len(in.frames) : \E j \in 1..Len(in.frames[i].chunks) :
    /\ in.frames[i].chunks[j].type = ChunkType.Cel
    /\ ~IsSome(parseCelChunk(in.frames[i].chunks[j].data))

\* the input has all its bytes, all the frames its header counts and no invalid cel
WellFormed(in) ==
  Complete(in) /\ ~HasInvalidCel(in) /\ in.header.frameCount <= Len(in.frames)

BadFileMagic(in) == in.header.magic # ASE_FILE_MAGIC

BadDepth(in) == in.header.colorDepth \notin {8, 16, 32}

BadFrameMagic(in) ==
  \E i \in 1..Len(in.frames) :
    i <= in.header.frameCount /\ in.frames[i].magic # ASE_FRAME_MAGIC

Rejected(code) == file = None /\ err = Some(AseFormatError(code))

\* the File has a frame for every frame counted, and the header holds what was read
ParsedToTheEnd ==
  /\ IsSome(file)
  /\ Len(Get(file).frames) = input.header.frameCount
  /\ Get(file).header.magic = input.header.magic
  /\ Get(file).header.colorDepth = input.header.colorDepth

\* C9 as stated, for inputs with no other damage: a strict decode fails with BadMagic
\* when the file magic or a frame magic is wrong and with UnsupportedColorDepth when
\* the colour depth is none of 8, 16, 32; a non-strict decode of the same inputs
\* parses to the end and records the magic and colour depth read.
C9_StrictRejects ==
  (pc = "parsed" /\ WellFormed(input)) =>
    /\ (opts.strict /\ (BadFileMagic(input) \/ BadFrameMagic(input))) =>
          Rejected(AseErrorCode.BAD_MAGIC)
    /\ (opts.strict /\ BadDepth(input)) => Rejected(AseErrorCode.UNSUPPORTED_COLOR_DEPTH)
    /\ (~opts.strict /\ (BadFileMagic(input) \/ BadFrameMagic(input) \/ BadDepth(input))) =>
          ParsedToTheEnd

\* C9 amended: a strict decode returns no File when the file magic, the colour depth
\* or the magic of a counted frame is wrong, and the error is that of the first check
\* that fails in file order: BadMagic for a wrong file magic (input of 6 bytes or
\* more), UnsupportedColorDepth for a wrong colour depth under a right file magic
\* (input of 14 bytes or more), BadMagic for a wrong frame magic under a header that
\* passes both checks in an input with no other damage.  A non-strict decode of an
\* input with no other damage parses to the end and records the magic and the colour
\* depth read.
C9_FirstFailedCheck ==
  pc = "parsed" =>
    /\ (opts.strict /\ (BadFileMagic(input) \/ BadDepth(input) \/ BadFrameMagic(input))) =>
          file = None /\ IsSome(err)
    /\ (opts.strict /\ BadFileMagic(input) /\ input.length >= 6) =>
          Rejected(AseErrorCode.BAD_MAGIC)
    /\ (opts.strict /\ ~BadFileMagic(input) /\ BadDepth(input) /\ input.length >= 14) =>
          Rejected(AseErrorCode.UNSUPPORTED_COLOR_DEPTH)
    /\ (opts.strict /\ ~BadFileMagic(input) /\ ~BadDepth(input) /\ BadFrameMagic(input)
          /\ WellFormed(input)) => Rejected(AseErrorCode.BAD_MAGIC)
    /\ (~opts.strict /\ WellFormed(input)) => ParsedToTheEnd

\* a strict decode of an input with a wrong file magic and a wrong colour depth failed
C9_Witness ==
  /\ pc = "parsed" /\ opts.strict /\ WellFormed(input)
  /\ BadFileMagic(input) /\ BadDepth(input)
  /\ Rejected(AseErrorCode.BAD_MAGIC)

\* C10: every failure of decode is a format error with a code of the taxonomy: a read
\* past the end of the input gives OutOfBounds, a Cel chunk with a variant tag outside
\* 0..3 gives InvalidCelType, strict or not.
C10_FailuresCarryCode ==
  (pc = "parsed" /\ IsSome(err)) =>
    /\ Get(err).name = "AseFormatError"
    /\ Get(err).code \in { AseErrorCode[k] : k \in DOMAIN AseErrorCode }
    /\ (input.length < 6) => Get(err).code = AseErrorCode.OUT_OF_BOUNDS
    /\ (~opts.strict /\ Complete(input) /\ HasInvalidCel(input)) =>
          Get(err).code = AseErrorCode.INVALID_CEL_TYPE

----------------------------------------------------------------------------
(* User data attachment: inputs that are short chunk streams over every    *)
(* kind of chunk the attachment context reacts to, with the UserData       *)
(* chunks told apart by their text.                                        *)

MaxAttachChunks == 4

\* the k-th UserData chunk of an input: its text is one letter
UserDataNo(k) == WireUserData(1, << 64 + k >>, None, <<>>)

\* the kinds of a stream: 0 is a UserData chunk, the others index the catalogue (Layer,
\* Cel, CelExtra, Palette, OldPalette, Tags, Slice, Tileset, ColorProfile,
\* ExternalFiles and a chunk of unknown type)
AttachKinds == { 0, 1, 3, 7, 8, 10, 12, 15, 16, 17, 18, 19 }

\* the chunks of a stream of kinds, the UserData chunks numbered from k on
RECURSIVE AttachChunks(_, _)
AttachChunks(kinds, k) ==
  IF Len(kinds) = 0 THEN <<>>
  ELSE IF Head(kinds) = 0 THEN << UserDataNo(k) >> \o AttachChunks(Tail(kinds), k + 1)
  ELSE << Catalogue[Head(kinds)] >> \o AttachChunks(Tail(kinds), k)

\* the stream in one frame (cut = 0) or with its first cut chunks in a first frame
AttachFrames(chunks, cut) ==
  IF cut = 0 THEN << WireFrame(1, chunks, ASE_FRAME_MAGIC) >>
  ELSE << WireFrame(1, SubSeq(chunks, 1, cut), ASE_FRAME_MAGIC),
          WireFrame(2, SubSeq(chunks, cut + 1, Len(chunks)), ASE_FRAME_MAGIC) >>

AttachStreams == UNION { [ 1..n -> AttachKinds ] : n \in 0..MaxAttachChunks }

AttachInputs ==
  { WireFile([ TypicalHeader EXCEPT !.frameCount = IF sc[2] = 0 THEN 1 ELSE 2 ],
             AttachFrames(AttachChunks(sc[1], 1), sc[2]), None) :
      sc \in { x \in AttachStreams \X {0, 1, 2} : x[2] <= Len(x[1]) } }

AttachInit ==
  /\ input \in AttachInputs
  /\ pc = "start"
  /\ opts = DEFAULT_OPTIONS
  /\ file = None /\ err = None
  /\ edit = NoEdit
  /\ mode = "chunks-if-present"
  /\ out = None /\ encErr = None
  /\ file2 = None /\ err2 = None
  /\ out2 = None /\ encErr2 = None
  /\ ret = None /\ inflateCalls = 0

AttachNext == \E strict \in BOOLEAN, preserveChunks \in BOOLEAN : Parse(strict, preserveChunks)

AttachSpec == AttachInit /\ [][AttachNext]_vars

\* the chunks of the decoded frames in file order
FrameChunksOf(wf) == wf.chunks

Flat(in) == Concat(Map(FrameChunksOf, DecodedFrames(in)))

\* the chunk kinds that end a run of UserData chunks
Interrupts(c) ==
  c.type \in { ChunkType.Layer, ChunkType.Cel, ChunkType.Slice, ChunkType.Tileset,
               ChunkType.Tags, ChunkType.Palette, ChunkType.OldPalette1,
               ChunkType.OldPalette2, ChunkType.ColorProfile, ChunkType.ExternalFiles }

\* the position of the k-th UserData chunk at or after position i that no interrupting
\* chunk precedes, or 0 when there is none
RECURSIVE FollowingUserData(_, _, _)
FollowingUserData(flat, i, k) ==
  IF i > Len(flat) \/ Interrupts(flat[i]) THEN 0
  ELSE IF flat[i].type = ChunkType.UserData
    THEN (IF k = 1 THEN i ELSE FollowingUserData(flat, i + 1, k - 1))
  ELSE FollowingUserData(flat, i + 1, k)

TagCount(c) == IF c.type = ChunkType.Tags THEN Len(c.data.tags) ELSE 0

\* the number of tags the chunks before position p carry
TagsBefore(flat, p) == SumSeq(Map(TagCount, SubSeq(flat, 1, p - 1)))

UserDataOf(c) == parseUserDataChunk(c.data).userData

TileUserData(t) == IF IsSome(t.tileUserData) THEN Get(t.tileUserData) ELSE <<>>

\* the entities of a File that hold the user data ud
Holders(f, ud) ==
  { <<"layer", i, 0>> : i \in { i \in 1..Len(f.layers) : f.layers[i].userData = Some(ud) } }
  \cup UNION { { <<"cel", i, j>> : j \in { j \in 1..Len(f.frames[i].cels) :
                                           f.frames[i].cels[j].userData = Some(ud) } } :
               i \in 1..Len(f.frames) }
  \cup { <<"tag", i, 0>> : i \in { i \in 1..Len(f.tags) : f.tags[i].userData = Some(ud) } }
  \cup { <<"slice", i, 0>> : i \in { i \in 1..Len(f.slices) : f.slices[i].userData = Some(ud) } }
  \cup { <<"tileset", i, 0>> :
           i \in { i \in 1..Len(f.tilesets) : f.tilesets[i].userData = Some(ud) } }
  \cup UNION { { <<"tile", i, j>> : j \in { j \in 1..Len(TileUserData(f.tilesets[i])) :
                                            TileUserData(f.tilesets[i])[j] = ud } } :
               i \in 1..Len(f.tilesets) }
  \cup { <<"sprite", 0, 0>> : i \in { i \in {0} : f.userData = Some(ud) } }

\* tag number k of the Tags chunk at position p holds the user data of the k-th UserData
\* chunk that follows the chunk, and nothing else holds it; it holds none when no such
\* chunk follows
TagAttached(f, flat, p, k, q) ==
  IF q = 0 THEN f.tags[TagsBefore(flat, p) + k].userData = None
  ELSE Holders(f, UserDataOf(flat[q])) = { <<"tag", TagsBefore(flat, p) + k, 0>> }

TagsAttached(f, flat) ==
  \A p \in 1..Len(flat) :
    flat[p].type = ChunkType.Tags =>
      \A k \in 1..Len(flat[p].data.tags) :
        TagAttached(f, flat, p, k, FollowingUserData(flat, p + 1, k))

\* C11: in every decoded File, for every Tags chunk of the input and every k up to
\* its number of tags, the k-th UserData chunk that follows the chunk with no Layer,
\* Cel, Slice, Tileset, Tags, Palette, OldPalette, ColorProfile or ExternalFiles
\* chunk in between is held by tag k-1 of the chunk and by no other entity, and a tag
\* with no such UserData chunk has no user data.
C11_TagUserData == (pc = "parsed" /\ IsSome(file)) => TagsAttached(Get(file), Flat(input))

\* a Tags chunk with two tags was followed by two UserData chunks, an unknown chunk
\* among them, and both tags hold their user data
C11_Witness ==
  /\ pc = "parsed" /\ IsSome(file)
  /\ Len(Flat(input)) = 4
  /\ Flat(input)[1].type = ChunkType.Tags /\ Flat(input)[2].type = ChunkType.UserData
  /\ Flat(input)[3].type = 39321 /\ Flat(input)[4].type = ChunkType.UserData
  /\ Get(file).tags[1].userData = Some(UserDataOf(Flat(input)[2]))
  /\ Get(file).tags[2].userData = Some(UserDataOf(Flat(input)[4]))

\* before position i of the chunks cs, having passed uds UserData chunks on the way
\* back, the attach target is unset and no tag or tileset cursor applies: the stream
\* starts there, or a Palette, OldPalette, ColorProfile or ExternalFiles chunk is
\* met, or a Tags chunk all of whose tags have received their user data
RECURSIVE TargetUnset(_, _, _)
TargetUnset(cs, i, uds) ==
  IF i = 0 THEN TRUE
  ELSE IF cs[i].type \in { ChunkType.Palette, ChunkType.OldPalette1, ChunkType.OldPalette2,
                           ChunkType.ColorProfile, ChunkType.ExternalFiles } THEN TRUE
  ELSE IF cs[i].type = ChunkType.Tags THEN uds >= Len(cs[i].data.tags)
  ELSE IF Interrupts(cs[i]) THEN FALSE
  ELSE IF cs[i].type = ChunkType.UserData THEN TargetUnset(cs, i - 1, uds + 1)
  ELSE TargetUnset(cs, i - 1, uds)

\* the UserData chunks of the first frame that arrive with the target unset
SpriteUserDataAt(cs) ==
  { q \in 1..Len(cs) : cs[q].type = ChunkType.UserData /\ TargetUnset(cs, q - 1, 0) }

Last(S) == CHOOSE q \in S : \A r \in S : r <= q

\* the sprite-level user data the chunks cs of the first frame give a File
ExpectedSpriteUserData(cs) ==
  IF SpriteUserDataAt(cs) = {} THEN None ELSE Some(UserDataOf(cs[Last(SpriteUserDataAt(cs))]))

\* C12: when a UserData chunk of the first frame arrives with no tag or tileset cursor
\* applying and the attach target unset, the decoded File holds its user data as the
\* sprite-level user data.
C12_SpriteUserData ==
  (pc = "parsed" /\ IsSome(file) /\ Len(input.frames) > 0
     /\ SpriteUserDataAt(input.frames[1].chunks) # {}) =>
     Get(file).userData = ExpectedSpriteUserData(input.frames[1].chunks)

IsTileset(c) == c.type = ChunkType.Tileset

\* the number of the tileset the Tileset chunk at position p adds to the File
TilesetNo(flat, p) == Len(SelectSeq(SubSeq(flat, 1, p), IsTileset))

\* the number of UserData chunks that follow position p with no interrupting chunk
RECURSIVE FollowingCount(_, _)
FollowingCount(flat, i) ==
  IF i > Len(flat) \/ Interrupts(flat[i]) THEN 0
  ELSE (IF flat[i].type = ChunkType.UserData THEN 1 ELSE 0) + FollowingCount(flat, i + 1)

\* the tileset t holds the first of the n UserData chunks that follow position p as its
\* own user data and the others, in order, as the user data of its tiles
TilesetAttached(t, flat, p, n) ==
  /\ t.userData = IF n = 0 THEN None
                  ELSE Some(UserDataOf(flat[FollowingUserData(flat, p + 1, 1)]))
  /\ Len(TileUserData(t)) = IF n = 0 THEN 0 ELSE n - 1
  /\ \A j \in 1..(n - 1) :
       TileUserData(t)[j] = UserDataOf(flat[FollowingUserData(flat, p + 1, j + 1)])

TilesetsAttached(f, flat) ==
  \A p \in 1..Len(flat) :
    IsTileset(flat[p]) =>
      TilesetAttached(f.tilesets[TilesetNo(flat, p)], flat, p, FollowingCount(flat, p + 1))

\* C13: in every decoded File, for every Tileset chunk of the input, the first UserData
\* chunk that follows it with no Layer, Cel, Slice, Tags, Palette, OldPalette,
\* ColorProfile, ExternalFiles or Tileset chunk in between is the tileset's own user
\* data, and the j-th UserData chunk after that one is tileUserData[j-1] of the
\* tileset; the tileset holds no other user data.
C13_TilesetUserData ==
  (pc = "parsed" /\ IsSome(file)) => TilesetsAttached(Get(file), Flat(input))

\* a Tileset chunk was followed by three UserData chunks: the tileset holds the first,
\* and its tiles the other two
C13_Witness ==
  /\ pc = "parsed" /\ IsSome(file)
  /\ Len(Flat(input)) = 4 /\ IsTileset(Flat(input)[1])
  /\ FollowingCount(Flat(input), 2) = 3
  /\ Get(file).tilesets[1].userData = Some(UserDataOf(Flat(input)[2]))
  /\ TileUserData(Get(file).tilesets[1])
       = << UserDataOf(Flat(input)[3]), UserDataOf(Flat(input)[4]) >>

----------------------------------------------------------------------------
(* The palette of a decoded File                                           *)

IsPalette(c) == c.type = ChunkType.Palette

IsOldPalette(c) == c.type \in { ChunkType.OldPalette1, ChunkType.OldPalette2 }

PacketColors(p) == p.colors

OldChunkColors(c) == Concat(Map(PacketColors, c.data.packets))

\* the colours of the old palette chunks in packet order
ReplayedColors(in) == Concat(Map(OldChunkColors, SelectSeq(Flat(in), IsOldPalette)))

Rgb(entry) == [ r |-> Get(entry).r, g |-> Get(entry).g, b |-> Get(entry).b ]

\* every index of the palette holds an entry of alpha 255, and the entries are the
\* replayed colours in order
FullySynthesized(p, colors) ==
  /\ p.firstIndex = 0 /\ p.lastIndex = Len(p.entries) - 1 /\ p.size = Len(p.entries)
  /\ \A i \in 1..Len(p.entries) : IsSome(p.entries[i]) /\ Get(p.entries[i]).a = 255
  /\ Map(Rgb, SelectSeq(p.entries, IsSome)) = colors

LastPaletteOf(cs) == parsePaletteChunk(cs[Len(cs)].data).palette

\* C14: a decoded File whose input held a modern Palette chunk has the palette of the
\* last such chunk, whatever OldPalette chunks there were; one whose input held no
\* modern Palette chunk but an OldPalette chunk has the palette replayed from the
\* OldPalette packets, with an entry of alpha 255 at every index from firstIndex to
\* lastIndex.
C14_OldPaletteSynthesis ==
  (pc = "parsed" /\ IsSome(file)) =>
     IF SelectSeq(Flat(input), IsPalette) # <<>>
     THEN Get(file).palette = Some(LastPaletteOf(SelectSeq(Flat(input), IsPalette)))
     ELSE IF SelectSeq(Flat(input), IsOldPalette) # <<>>
     THEN /\ IsSome(Get(file).palette)
          /\ FullySynthesized(Get(Get(file).palette), ReplayedColors(input))
     ELSE Get(file).palette = None

----------------------------------------------------------------------------
(* Cel utilities (util/decode.ts, util/tile.ts): linked-cel resolution and *)
(* the lazy decoding of compressed payloads.  A cel is named by its place  *)
(* in the File, frames[i].cels[j]; a tileset by its place in tilesets.     *)

\* the depth of nested calls at which the runtime throws a RangeError (call stack
\* exhausted); any depth greater than the number of cels of a File stands for it
MaxCallDepth == 6

\* compression.inflateZlib on a stream with a valid zlib header: the stored data; none
\* when it throws
inflateZlib(bytes) ==
  IF Len(bytes) >= 2 /\ bytes[1] = 120 /\ (bytes[1] * 256 + bytes[2]) % 31 = 0
  THEN Some(SubSeq(bytes, 3, Len(bytes)))
  ELSE None

\* Array.prototype.find((c) => c.layerIndex === layerIndex) as a position, 0 when absent
RECURSIVE FindCel(_, _, _)
FindCel(cels, layerIndex, j) ==
  IF j > Len(cels) THEN 0
  ELSE IF cels[j].layerIndex = layerIndex THEN j
  ELSE FindCel(cels, layerIndex, j + 1)

Returned(f, at, value, inflates) ==
  [ file |-> f, ok |-> TRUE, at |-> at, value |-> value, code |-> "", inflates |-> inflates ]

Thrown(f, code, inflates) ==
  [ file |-> f, ok |-> FALSE, at |-> <<>>, value |-> <<>>, code |-> code,
    inflates |-> inflates ]

\* resolveLinkedCel(file, file.frames[i].cels[j])
RECURSIVE resolveLinkedCel(_, _, _, _)
resolveLinkedCel(f, i, j, depth) ==
  IF depth > MaxCallDepth THEN Thrown(f, "RangeError", 0)
  ELSE IF f.frames[i].cels[j].type # CelType.Linked
  THEN Returned(f, << i, j >>, <<>>, 0)
  ELSE IF f.frames[i].cels[j].linkedFrameIndex >= Len(f.frames)
  THEN Thrown(f, AseErrorCode.INVALID_LINKED_CEL, 0)
  ELSE IF FindCel(f.frames[f.frames[i].cels[j].linkedFrameIndex + 1].cels,
                  f.frames[i].cels[j].layerIndex, 1) = 0
  THEN Thrown(f, AseErrorCode.INVALID_LINKED_CEL, 0)
  ELSE resolveLinkedCel(f, f.frames[i].cels[j].linkedFrameIndex + 1,
                        FindCel(f.frames[f.frames[i].cels[j].linkedFrameIndex + 1].cels,
                                f.frames[i].cels[j].layerIndex, 1),
                        depth + 1)

\* the CompressedImage case of decodeCelPixels, without its look at the cache
InflateCel(f, i, j) ==
  IF IsSome(inflateZlib(f.frames[i].cels[j].data.bytes))
  THEN Returned([ f EXCEPT !.frames[i].cels[j].data.decoded =
                             inflateZlib(f.frames[i].cels[j].data.bytes) ],
                << i, j >>, Get(inflateZlib(f.frames[i].cels[j].data.bytes)), 1)
  ELSE Thrown(f, AseErrorCode.DECOMPRESSION_FAILED, 1)

\* the CompressedImage case of decodeCelPixels
DecodeCompressedCel(f, i, j) ==
  IF IsSome(f.frames[i].cels[j].data.decoded)
  THEN Returned(f, << i, j >>, Get(f.frames[i].cels[j].data.decoded), 0)
  ELSE InflateCel(f, i, j)

\* decodeCelPixels(file, file.frames[i].cels[j]): the pixels, the File with its cache,
\* and the number of calls of inflateZlib
RECURSIVE decodeCelPixels(_, _, _, _)
decodeCelPixels(f, i, j, depth) ==
  IF depth > MaxCallDepth THEN Thrown(f, "RangeError", 0)
  ELSE CASE f.frames[i].cels[j].type = CelType.RawImage ->
              Returned(f, << i, j >>, f.frames[i].cels[j].data.bytes, 0)
         [] f.frames[i].cels[j].type = CelType.CompressedImage ->
              DecodeCompressedCel(f, i, j)
         [] f.frames[i].cels[j].type = CelType.Linked ->
              IF f.frames[i].cels[j].linkedFrameIndex >= Len(f.frames)
              THEN Thrown(f, AseErrorCode.INVALID_LINKED_CEL, 0)
              ELSE IF FindCel(f.frames[f.frames[i].cels[j].linkedFrameIndex + 1].cels,
                              f.frames[i].cels[j].layerIndex, 1) = 0
              THEN Thrown(f, AseErrorCode.INVALID_LINKED_CEL, 0)
              ELSE decodeCelPixels(f, f.frames[i].cels[j].linkedFrameIndex + 1,
                     FindCel(f.frames[f.frames[i].cels[j].linkedFrameIndex + 1].cels,
                             f.frames[i].cels[j].layerIndex, 1),
                     depth + 1)
         [] OTHER -> Thrown(f, AseErrorCode.INVALID_CEL_TYPE, 0)

\* DataView.getUint8 / getUint16 / getUint32 (little-endian) at a byte offset
ReadTile(bytes, offset, bytesPerTile) ==
  SumSeq([ k \in 1..bytesPerTile |-> bytes[offset + k] * (256 ^ (k - 1)) ])

\* the loop of decodeTilemap over the inflated bytes
TilesOf(f, i, j, bytes) ==
  IF f.frames[i].cels[j].width * f.frames[i].cels[j].height = 0
  THEN Returned([ f EXCEPT !.frames[i].cels[j].decodedTiles = Some(<<>>) ], << i, j >>, <<>>, 1)
  ELSE IF f.frames[i].cels[j].bitsPerTile \notin { 8, 16, 32 } THEN Thrown(f, "Error", 1)
  ELSE IF Len(bytes) < f.frames[i].cels[j].width * f.frames[i].cels[j].height
                       * (f.frames[i].cels[j].bitsPerTile \div 8)
  THEN Thrown(f, "RangeError", 1)
  ELSE \* tiles
       Returned([ f EXCEPT !.frames[i].cels[j].decodedTiles =
                    Some([ t \in 1..(f.frames[i].cels[j].width * f.frames[i].cels[j].height) |->
                           ReadTile(bytes, (t - 1) * (f.frames[i].cels[j].bitsPerTile \div 8),
                                    f.frames[i].cels[j].bitsPerTile \div 8) ]) ],
                << i, j >>,
                [ t \in 1..(f.frames[i].cels[j].width * f.frames[i].cels[j].height) |->
                  ReadTile(bytes, (t - 1) * (f.frames[i].cels[j].bitsPerTile \div 8),
                           f.frames[i].cels[j].bitsPerTile \div 8) ],
                1)

\* decodeTilemap without its look at the cache
InflateTilemap(f, i, j) ==
  IF IsSome(inflateZlib(f.frames[i].cels[j].data.bytes))
  THEN TilesOf(f, i, j, Get(inflateZlib(f.frames[i].cels[j].data.bytes)))
  ELSE Thrown(f, "Error", 1)

\* decodeTilemap(file.frames[i].cels[j]) for a tilemap cel
decodeTilemap(f, i, j) ==
  IF IsSome(f.frames[i].cels[j].decodedTiles)
  THEN Returned(f, << i, j >>, Get(f.frames[i].cels[j].decodedTiles), 0)
  ELSE InflateTilemap(f, i, j)

\* decodeTilesetPixels without its look at the cache
InflateTileset(f, t) ==
  IF f.tilesets[t].compressedData = None THEN Thrown(f, AseErrorCode.MISSING_TILESET, 0)
  ELSE IF IsSome(inflateZlib(Get(f.tilesets[t].compressedData)))
  THEN Returned([ f EXCEPT !.tilesets[t].decodedPixels =
                             inflateZlib(Get(f.tilesets[t].compressedData)) ],
                << t >>, Get(inflateZlib(Get(f.tilesets[t].compressedData))), 1)
  ELSE Thrown(f, "Error", 1)

\* decodeTilesetPixels(file.tilesets[t])
decodeTilesetPixels(f, t) ==
  IF IsSome(f.tilesets[t].decodedPixels)
  THEN Returned(f, << t >>, Get(f.tilesets[t].decodedPixels), 0)
  ELSE InflateTileset(f, t)

\* the cel and tileset chunks of the inputs: a raw cel, cels linked to frame 0, to frame
\* 1 and to a frame no input has, a compressed cel, a compressed cel whose bytes are no
\* zlib stream, a tilemap cel of one 8-bit tile, and a tileset with pixel data
CelCatalogue ==
  << Catalogue[3],
     Catalogue[4],
     WireChunk(ChunkType.Cel, Extend(WireCelPrefix(CelType.Linked), [ linkedFrameIndex |-> 1 ])),
     WireChunk(ChunkType.Cel, Extend(WireCelPrefix(CelType.Linked), [ linkedFrameIndex |-> 2 ])),
     Catalogue[5],
     WireChunk(ChunkType.Cel, Extend(WireCelPrefix(CelType.CompressedImage),
                                     [ width |-> 1, height |-> 1, bytes |-> <<5>> ])),
     WireChunk(ChunkType.Cel, Extend(WireCelPrefix(CelType.CompressedTilemap),
                                     [ width |-> 1, height |-> 1, bitsPerTile |-> 8,
                                       masks |-> Masks, bytes |-> <<120, 156, 7>> ])),
     Catalogue[16] >>

MaxCelChunks == 2

\* the inflateZlib calls after which no further decode request is made
MaxInflateCalls == 3

CelChunks(kinds) == [ k \in 1..Len(kinds) |-> CelCatalogue[kinds[k]] ]

CelStreams == UNION { [ 1..n -> 1..Len(CelCatalogue) ] : n \in 0..MaxCelChunks }

CelInputs ==
  { WireFile([ TypicalHeader EXCEPT !.frameCount = IF sc[2] = 0 THEN 1 ELSE 2 ],
             AttachFrames(CelChunks(sc[1]), sc[2]), None) :
      sc \in { x \in CelStreams \X {0, 1, 2} : x[2] <= Len(x[1]) } }

CelInit ==
  /\ input \in CelInputs
  /\ pc = "start"
  /\ opts = DEFAULT_OPTIONS
  /\ file = None /\ err = None
  /\ edit = NoEdit
  /\ mode = "chunks-if-present"
  /\ out = None /\ encErr = None
  /\ file2 = None /\ err2 = None
  /\ out2 = None /\ encErr2 = None
  /\ ret = None /\ inflateCalls = 0

\* what a call of a utility on frames[i].cels[j] (or tilesets[i]) came to
CallOutcome(op, i, j, r) ==
  Some([ op |-> op, frame |-> i, cel |-> j, ok |-> r.ok, at |-> r.at, value |-> r.value,
         code |-> r.code, inflates |-> r.inflates ])

\* resolveLinkedCel(file, file.frames[i].cels[j])
ResolveLinkedCel(i, j) ==
  /\ pc = "parsed" /\ IsSome(file)
  /\ i \in 1..Len(Get(file).frames) /\ j \in 1..Len(Get(file).frames[i].cels)
  /\ \E r \in { resolveLinkedCel(Get(file), i, j, 0) } : ret' = CallOutcome("resolveLinkedCel", i, j, r)
  /\ UNCHANGED <<pc, input, opts, file, err, edit, mode, out, encErr, file2, err2, out2,
                 encErr2, inflateCalls>>

\* await decodeCelPixels(file, file.frames[i].cels[j])
DecodeCelPixels(i, j) ==
  /\ pc = "parsed" /\ IsSome(file) /\ inflateCalls < MaxInflateCalls
  /\ i \in 1..Len(Get(file).frames) /\ j \in 1..Len(Get(file).frames[i].cels)
  /\ \E r \in { decodeCelPixels(Get(file), i, j, 0) } :
        /\ ret' = CallOutcome("decodeCelPixels", i, j, r)
        /\ file' = Some(r.file)
        /\ inflateCalls' = inflateCalls + r.inflates
  /\ UNCHANGED <<pc, input, opts, err, edit, mode, out, encErr, file2, err2, out2, encErr2>>

\* await decodeTilemap(file.frames[i].cels[j])
DecodeTilemap(i, j) ==
  /\ pc = "parsed" /\ IsSome(file) /\ inflateCalls < MaxInflateCalls
  /\ i \in 1..Len(Get(file).frames) /\ j \in 1..Len(Get(file).frames[i].cels)
  /\ Get(file).frames[i].cels[j].type = CelType.CompressedTilemap
  /\ \E r \in { decodeTilemap(Get(file), i, j) } :
        /\ ret' = CallOutcome("decodeTilemap", i, j, r)
        /\ file' = Some(r.file)
        /\ inflateCalls' = inflateCalls + r.inflates
  /\ UNCHANGED <<pc, input, opts, err, edit, mode, out, encErr, file2, err2, out2, encErr2>>

\* await decodeTilesetPixels(file.tilesets[t])
DecodeTilesetPixels(t) ==
  /\ pc = "parsed" /\ IsSome(file) /\ inflateCalls < MaxInflateCalls
  /\ t \in 1..Len(Get(file).tilesets)
  /\ \E r \in { decodeTilesetPixels(Get(file), t) } :
        /\ ret' = CallOutcome("decodeTilesetPixels", t, 0, r)
        /\ file' = Some(r.file)
        /\ inflateCalls' = inflateCalls + r.inflates
  /\ UNCHANGED <<pc, input, opts, err, edit, mode, out, encErr, file2, err2, out2, encErr2>>

\* the pixels and the tiles an edit gives a cel
NewPixels == <<9, 8, 7, 6>>

NewTiles == <<3>>

\* an edit that leaves a compressed cel holding pixels (a tilemap cel: tiles) in place of
\* its zlib bytes
ReplacePixels(i, j) ==
  /\ pc = "parsed" /\ IsSome(file) /\ edit = NoEdit
  /\ i \in 1..Len(Get(file).frames) /\ j \in 1..Len(Get(file).frames[i].cels)
  /\ Get(file).frames[i].cels[j].type \in { CelType.CompressedImage, CelType.CompressedTilemap }
  /\ file' = Some(IF Get(file).frames[i].cels[j].type = CelType.CompressedImage
                  THEN [ Get(file) EXCEPT !.frames[i].cels[j].data =
                           [ kind |-> "raw", bytes |-> NewPixels, decoded |-> None ] ]
                  ELSE [ Get(file) EXCEPT !.frames[i].cels[j].data =
                           [ kind |-> "raw", bytes |-> <<>>, decoded |-> None ],
                         !.frames[i].cels[j].decodedTiles = Some(NewTiles) ])
  /\ edit' = [ kind |-> "pixels", index |-> i, duration |-> j, name |-> <<>> ]
  /\ UNCHANGED <<pc, input, opts, err, mode, out, encErr, file2, err2, out2, encErr2, ret,
                 inflateCalls>>

CelNext ==
  \/ \E preserveChunks \in BOOLEAN : Parse(FALSE, preserveChunks)
  \/ \E i \in 1..MaxFrames, j \in 1..MaxCelChunks : ResolveLinkedCel(i, j)
  \/ \E i \in 1..MaxFrames, j \in 1..MaxCelChunks : DecodeCelPixels(i, j)
  \/ \E i \in 1..MaxFrames, j \in 1..MaxCelChunks : DecodeTilemap(i, j)
  \/ \E t \in 1..MaxCelChunks : DecodeTilesetPixels(t)
  \/ \E i \in 1..MaxFrames, j \in 1..MaxCelChunks : ReplacePixels(i, j)
  \/ \E m \in Modes : Encode(m)

CelSpec == CelInit /\ [][CelNext]_vars

CelAt(f, at) == f.frames[at[1]].cels[at[2]]

\* C15: resolveLinkedCel on any cel of a decoded File ends in one of two ways: it
\* returns a cel that is not Linked (the cel itself when that is not Linked, else a cel
\* of the same layer), or it fails with INVALID_LINKED_CEL.
C15_ResolveTerminates ==
  (pc = "parsed" /\ IsSome(file) /\ IsSome(ret) /\ Get(ret).op = "resolveLinkedCel") =>
     \/ /\ Get(ret).ok
        /\ CelAt(Get(file), Get(ret).at).type # CelType.Linked
        /\ CelAt(Get(file), Get(ret).at).layerIndex
             = CelAt(Get(file), << Get(ret).frame, Get(ret).cel >>).layerIndex
        /\ CelAt(Get(file), << Get(ret).frame, Get(ret).cel >>).type # CelType.Linked
             => Get(ret).at = << Get(ret).frame, Get(ret).cel >>
     \/ /\ ~ Get(ret).ok
        /\ Get(ret).code = AseErrorCode.INVALID_LINKED_CEL

\* the call before this one was the same request and succeeded, and the File has not
\* been edited
JustSucceeded(op, i, j) ==
  /\ IsSome(ret) /\ Get(ret).op = op /\ Get(ret).frame = i /\ Get(ret).cel = j /\ Get(ret).ok
  /\ edit = NoEdit

\* this call returned the buffer without a call of inflateZlib
ServedFromCache(buffer) ==
  /\ inflateCalls' = inflateCalls
  /\ Get(ret').ok /\ Get(ret').value = buffer /\ Get(ret').inflates = 0
  /\ file' = file

\* C16: a decode request on an entity that an earlier request decoded (the request just
\* before it succeeded, or the entity holds the buffer an earlier request cached) returns
\* that buffer and does not call inflateZlib; this for decodeCelPixels, decodeTilemap and
\* decodeTilesetPixels.
C16_CachedDecode ==
  [][ /\ \A i \in 1..MaxFrames, j \in 1..MaxCelChunks :
           /\ (DecodeCelPixels(i, j) /\ JustSucceeded("decodeCelPixels", i, j))
                => ServedFromCache(Get(ret).value)
           /\ (DecodeCelPixels(i, j) /\ Get(file).frames[i].cels[j].type = CelType.CompressedImage
                 /\ IsSome(Get(file).frames[i].cels[j].data.decoded))
                => ServedFromCache(Get(Get(file).frames[i].cels[j].data.decoded))
           /\ (DecodeTilemap(i, j) /\ JustSucceeded("decodeTilemap", i, j))
                => ServedFromCache(Get(ret).value)
           /\ (DecodeTilemap(i, j) /\ IsSome(Get(file).frames[i].cels[j].decodedTiles))
                => ServedFromCache(Get(Get(file).frames[i].cels[j].decodedTiles))
      /\ \A t \in 1..MaxCelChunks :
           /\ (DecodeTilesetPixels(t) /\ JustSucceeded("decodeTilesetPixels", t, 0))
                => ServedFromCache(Get(ret).value)
           /\ (DecodeTilesetPixels(t) /\ IsSome(Get(file).tilesets[t].decodedPixels))
                => ServedFromCache(Get(Get(file).tilesets[t].decodedPixels))
    ]_vars

\* a compressed cel, a tilemap cel or a tileset has just been served from its cache
C16_Witness ==
  /\ pc = "parsed" /\ IsSome(file) /\ IsSome(ret)
  /\ Get(ret).ok /\ Get(ret).inflates = 0 /\ inflateCalls = 1
  /\ Get(ret).op = "decodeCelPixels"
  /\ CelAt(Get(file), Get(ret).at).type = CelType.CompressedImage
  /\ Get(ret).value = Get(CelAt(Get(file), Get(ret).at).data.decoded)
  /\ Get(ret).value = <<5>>

IsCelChunk(c) == c.type = ChunkType.Cel

\* the Cel chunks of frame i of a stream of bytes
CelChunksOf(bytes, i) == SelectSeq(bytes.frames[i].chunks, IsCelChunk)

IsCompressed(cel) == cel.type \in { CelType.CompressedImage, CelType.CompressedTilemap }

\* the payload encodeCelChunk writes for a compressed cel
WrittenPayload(cel) ==
  IF cel.type = CelType.CompressedImage THEN CelImagePayload(cel) ELSE CelTilemapPayload(cel)

\* the bytes an edited cel holds in place of zlib bytes
HeldPixels(cel) ==
  IF cel.type = CelType.CompressedImage THEN NewPixels
  ELSE TilesToBytes(NewTiles, cel.bitsPerTile)

\* cel j of frame i: decoding left the bytes of its chunk in place, and encode wrote
\* them as they were, without deflateZlib, unless the cel holds pixels instead
PayloadPreserved(f, i, j) ==
  IF f.frames[i].cels[j].data.kind = "zlib"
  THEN /\ f.frames[i].cels[j].data.bytes = CelChunksOf(input, i)[j].data.bytes
       /\ CelChunksOf(Get(out), i)[j].data.bytes = CelChunksOf(input, i)[j].data.bytes
       /\ ~ WrittenPayload(f.frames[i].cels[j]).deflated
  ELSE /\ WrittenPayload(f.frames[i].cels[j]).deflated
       /\ CelChunksOf(Get(out), i)[j].data.bytes = deflateZlib(HeldPixels(f.frames[i].cels[j]))

\* C17: in an encoded File, every compressed image or tilemap cel that still holds its
\* zlib bytes holds the bytes of its chunk, whatever was decoded before, and the
\* encoder wrote exactly those bytes and did not call deflateZlib for it; a cel that
\* holds pixels instead was written as the deflateZlib of those pixels.
C17_ZlibBytesVerbatim ==
  (pc = "encoded" /\ IsSome(file) /\ IsSome(out)) =>
     \A i \in 1..Len(Get(file).frames) :
        /\ Len(CelChunksOf(Get(out), i)) = Len(Get(file).frames[i].cels)
        /\ \A j \in 1..Len(Get(file).frames[i].cels) :
              IsCompressed(Get(file).frames[i].cels[j]) => PayloadPreserved(Get(file), i, j)

\* a compressed cel was decoded, its cache is filled, and the File was encoded
C17_Witness ==
  /\ pc = "encoded" /\ IsSome(file) /\ IsSome(out) /\ inflateCalls = 1
  /\ Len(Get(file).frames) = 1 /\ Len(Get(file).frames[1].cels) = 1
  /\ Get(file).frames[1].cels[1].type = CelType.CompressedImage
  /\ Get(file).frames[1].cels[1].data.decoded = Some(<<5>>)
  /\ CelChunksOf(Get(out), 1)[1].data.bytes = <<120, 156, 5>>

----------------------------------------------------------------------------
(* Tag helpers: resolveTagFrameRange applied to tags over a short range of *)
(* frames, in every direction.                                             *)

TagDirection == [ Forward |-> 0, Reverse |-> 1, PingPong |-> 2, PingPongReverse |-> 3 ]

\* for (let i = from; i <= to; i++) push(i)
RECURSIVE Ascending(_, _)
Ascending(from, to) == IF from <= to THEN << from >> \o Ascending(from + 1, to) ELSE <<>>

\* for (let i = to; i >= from; i--) push(i)
RECURSIVE Descending(_, _)
Descending(to, from) == IF to >= from THEN << to >> \o Descending(to - 1, from) ELSE <<>>

\* a return leg that repeats the endpoints
WholeLegBack(from, to) == Descending(to, from)

\* the second loop of PingPong: for (let i = to - 1; i > from; i--) push(i)
PingPongBack(from, to) == Descending(to - 1, from + 1)

\* the second loop of PingPongReverse: for (let i = from + 1; i < to; i++) push(i)
PingPongReverseBack(from, to) == Ascending(from + 1, to - 1)

playbackOrder(tag) ==
  CASE tag.direction = TagDirection.Forward -> Ascending(tag.fromFrame, tag.toFrame)
    [] tag.direction = TagDirection.Reverse -> Descending(tag.toFrame, tag.fromFrame)
    [] tag.direction = TagDirection.PingPong ->
         Ascending(tag.fromFrame, tag.toFrame) \o PingPongBack(tag.fromFrame, tag.toFrame)
    [] tag.direction = TagDirection.PingPongReverse ->
         Descending(tag.toFrame, tag.fromFrame)
           \o PingPongReverseBack(tag.fromFrame, tag.toFrame)
    [] OTHER -> <<>>

resolveTagFrameRange(tag) ==
  [ name |-> tag.name, from |-> tag.fromFrame, to |-> tag.toFrame,
    direction |-> tag.direction, repeat |-> tag.repeat,
    frameCount |-> tag.toFrame - tag.fromFrame + 1, playbackOrder |-> playbackOrder(tag) ]

MaxTagFrame == 4

\* tags over frames 0..MaxTagFrame, the direction any byte value up to 4
TagInputs ==
  { [ parseTag(WireTag(<<97>>)) EXCEPT !.fromFrame = a, !.toFrame = b, !.direction = d ] :
      a \in 0..MaxTagFrame, b \in 0..MaxTagFrame, d \in 0..4 }

TagInit ==
  /\ input \in TagInputs
  /\ pc = "start"
  /\ opts = DEFAULT_OPTIONS
  /\ file = None /\ err = None
  /\ edit = NoEdit
  /\ mode = "chunks-if-present"
  /\ out = None /\ encErr = None
  /\ file2 = None /\ err2 = None
  /\ out2 = None /\ encErr2 = None
  /\ ret = None /\ inflateCalls = 0

\* resolveTagFrameRange(tag)
ResolveTagFrameRange ==
  /\ pc = "start"
  /\ ret' = Some(resolveTagFrameRange(input))
  /\ pc' = "resolved"
  /\ UNCHANGED <<input, opts, file, err, edit, mode, out, encErr, file2, err2, out2, encErr2,
                 inflateCalls>>

TagNext == ResolveTagFrameRange

TagSpec == TagInit /\ [][TagNext]_vars

\* the frame at position p (from 1) of a walk from a to b and back towards a, the
\* endpoints not repeated
PingPongAt(a, b, p) ==
  IF a <= b THEN (IF p <= b - a + 1 THEN a + p - 1 ELSE b - (p - (b - a + 1)))
  ELSE (IF p <= a - b + 1 THEN a - p + 1 ELSE b + (p - (a - b + 1)))

ExpectedLength(tag) ==
  IF tag.fromFrame = tag.toFrame THEN 1
  ELSE IF tag.direction \in { TagDirection.Forward, TagDirection.Reverse }
  THEN tag.toFrame - tag.fromFrame + 1
  ELSE 2 * (tag.toFrame - tag.fromFrame)

ExpectedAt(tag, p) ==
  CASE tag.direction = TagDirection.Forward -> tag.fromFrame + p - 1
    [] tag.direction = TagDirection.Reverse -> tag.toFrame - p + 1
    [] tag.direction = TagDirection.PingPong -> PingPongAt(tag.fromFrame, tag.toFrame, p)
    [] tag.direction = TagDirection.PingPongReverse ->
         PingPongAt(tag.toFrame, tag.fromFrame, p)

\* C18: the playback order of a tag with from <= to in one of the four directions is
\* from..to (Forward), to..from (Reverse), from..to then to-1..from+1 (PingPong), or
\* to..from then from+1..to-1 (PingPongReverse); its length is to-from+1 for Forward and
\* Reverse, 2*(to-from) for the ping-pong directions when to > from, and 1 when from = to.
C18_PlaybackOrder ==
  (pc = "resolved" /\ input.fromFrame <= input.toFrame /\ input.direction \in 0..3) =>
     /\ Len(Get(ret).playbackOrder) = ExpectedLength(input)
     /\ \A p \in 1..Len(Get(ret).playbackOrder) :
           Get(ret).playbackOrder[p] = ExpectedAt(input, p)

\* a ping-pong tag over four frames was resolved
C18_Witness ==
  /\ pc = "resolved" /\ input.direction = TagDirection.PingPong
  /\ input.fromFrame = 1 /\ input.toFrame = 4
  /\ Get(ret).playbackOrder = <<1, 2, 3, 4, 3, 2>>

----------------------------------------------------------------------------
(* Slice helpers: getSliceAtFrame on decoded Files whose Slice chunks list *)
(* their keys in any order.                                                *)

\* Array.prototype.find((s) => s.name === sliceName) as a position, 0 when absent
RECURSIVE FindSlice(_, _, _)
FindSlice(slices, sliceName, i) ==
  IF i > Len(slices) THEN 0
  ELSE IF slices[i].name = sliceName THEN i
  ELSE FindSlice(slices, sliceName, i + 1)

\* the loop over slice.keys: the last key of the leading keys with frameIndex <=
\* frameIndex, the position 0 standing for undefined
RECURSIVE ApplicableKey(_, _, _, _)
ApplicableKey(keys, frameIndex, k, applicableKey) ==
  IF k > Len(keys) THEN applicableKey
  ELSE IF keys[k].frameIndex <= frameIndex THEN ApplicableKey(keys, frameIndex, k + 1, k)
  ELSE applicableKey

ResolvedSliceKey(sliceName, key) ==
  [ name |-> sliceName, frameIndex |-> key.frameIndex, x |-> key.x, y |-> key.y,
    width |-> key.width, height |-> key.height, center |-> key.center, pivot |-> key.pivot ]

\* getSliceAtFrame(file, sliceName, frameIndex): the resolved key, or none
getSliceAtFrame(f, sliceName, frameIndex) ==
  IF FindSlice(f.slices, sliceName, 1) = 0 THEN None
  ELSE IF Len(f.slices[FindSlice(f.slices, sliceName, 1)].keys) = 0 THEN None
  ELSE IF ApplicableKey(f.slices[FindSlice(f.slices, sliceName, 1)].keys, frameIndex, 1, 0) = 0
  THEN None
  ELSE Some(ResolvedSliceKey(sliceName,
         f.slices[FindSlice(f.slices, sliceName, 1)].keys[
           ApplicableKey(f.slices[FindSlice(f.slices, sliceName, 1)].keys, frameIndex, 1, 0)]))

MaxSliceKeys == 2

MaxKeyFrame == 2

\* a key of a Slice chunk: x tells the keys of a chunk apart
WireSliceKey(frameIndex, x) ==
  [ frameIndex |-> frameIndex, x |-> x, y |-> 0, width |-> 4, height |-> 4, center |-> None,
    pivot |-> None ]

WireSlice(name, frameIndexes) ==
  WireChunk(ChunkType.Slice,
            [ name |-> name, flags |-> 0,
              keys |-> [ k \in 1..Len(frameIndexes) |-> WireSliceKey(frameIndexes[k], k) ] ])

KeyFrames == UNION { [ 1..n -> 0..MaxKeyFrame ] : n \in 0..MaxSliceKeys }

\* one frame with a slice named "s", alone or followed by a slice named "t"
SliceInputs ==
  { WireFile(TypicalHeader, << WireFrame(1, << WireSlice(<<115>>, ks) >> \o more, ASE_FRAME_MAGIC) >>,
             None) :
      ks \in KeyFrames, more \in { <<>>, << WireSlice(<<116>>, <<1>>) >> } }

\* the names asked for: "s", "t" and "u"
SliceNames == { DecodeUtf8(<<115>>), DecodeUtf8(<<116>>), DecodeUtf8(<<117>>) }

SliceInit ==
  /\ input \in SliceInputs
  /\ pc = "start"
  /\ opts = DEFAULT_OPTIONS
  /\ file = None /\ err = None
  /\ edit = NoEdit
  /\ mode = "chunks-if-present"
  /\ out = None /\ encErr = None
  /\ file2 = None /\ err2 = None
  /\ out2 = None /\ encErr2 = None
  /\ ret = None /\ inflateCalls = 0

\* getSliceAtFrame(file, sliceName, frameIndex)
GetSliceAtFrame(sliceName, frameIndex) ==
  /\ pc = "parsed" /\ IsSome(file)
  /\ ret' = Some([ op |-> "getSliceAtFrame", name |-> sliceName, frameIndex |-> frameIndex,
                   key |-> getSliceAtFrame(Get(file), sliceName, frameIndex) ])
  /\ UNCHANGED <<pc, input, opts, file, err, edit, mode, out, encErr, file2, err2, out2,
                 encErr2, inflateCalls>>

SliceNext ==
  \/ \E preserveChunks \in BOOLEAN : Parse(FALSE, preserveChunks)
  \/ \E sliceName \in SliceNames, frameIndex \in 0..(MaxKeyFrame + 1) :
        GetSliceAtFrame(sliceName, frameIndex)

SliceSpec == SliceInit /\ [][SliceNext]_vars

\* the keys of the slices of that name that apply to frame f
KeysUpTo(f, sliceName, frameIndex) ==
  { ResolvedSliceKey(sliceName, f.slices[i].keys[k]) :
      <<i, k>> \in { ik \in (1..Len(f.slices)) \X (1..MaxSliceKeys) :
                       /\ f.slices[ik[1]].name = sliceName
                       /\ ik[2] <= Len(f.slices[ik[1]].keys)
                       /\ f.slices[ik[1]].keys[ik[2]].frameIndex <= frameIndex } }

\* C19: the lookup of a slice name at frame f returns a key of that slice whose
\* frame-index is the greatest of those <= f, and none when there is no such slice, the
\* slice has no keys, or every key's frame-index exceeds f.
C19_GreatestKeyUpTo ==
  (pc = "parsed" /\ IsSome(file) /\ IsSome(ret) /\ Get(ret).op = "getSliceAtFrame") =>
     IF KeysUpTo(Get(file), Get(ret).name, Get(ret).frameIndex) = {}
     THEN Get(ret).key = None
     ELSE /\ IsSome(Get(ret).key)
          /\ Get(Get(ret).key) \in KeysUpTo(Get(file), Get(ret).name, Get(ret).frameIndex)
          /\ \A key \in KeysUpTo(Get(file), Get(ret).name, Get(ret).frameIndex) :
                key.frameIndex <= Get(Get(ret).key).frameIndex

----------------------------------------------------------------------------
(* Tile values (util/tile.ts).  A JavaScript number n of 32-bit magnitude  *)
(* is kept as [hi, lo] with n = hi * 65536 + lo and lo in 0..65535; hi is  *)
(* negative for a negative number.                                         *)

\* bitwise AND and OR of two 16-bit values
RECURSIVE And16(_, _, _)
And16(a, b, bits) ==
  IF bits = 0 THEN 0
  ELSE (IF a % 2 = 1 /\ b % 2 = 1 THEN 1 ELSE 0) + 2 * And16(a \div 2, b \div 2, bits - 1)

RECURSIVE Or16(_, _, _)
Or16(a, b, bits) ==
  IF bits = 0 THEN 0
  ELSE (IF a % 2 = 1 \/ b % 2 = 1 THEN 1 ELSE 0) + 2 * Or16(a \div 2, b \div 2, bits - 1)

\* ToInt32 as the 32 bits of a number, hi in 0..65535
Bits32(n) == [ hi |-> n.hi % 65536, lo |-> n.lo ]

\* the number a bitwise operator returns for 32 bits: bit 31 is the sign
Int32(w) == [ hi |-> IF w.hi >= 32768 THEN w.hi - 65536 ELSE w.hi, lo |-> w.lo ]

\* a & b
BitAnd(a, b) ==
  Int32([ hi |-> And16(Bits32(a).hi, Bits32(b).hi, 16), lo |-> And16(a.lo, b.lo, 16) ])

\* a | b
BitOr(a, b) ==
  Int32([ hi |-> Or16(Bits32(a).hi, Bits32(b).hi, 16), lo |-> Or16(a.lo, b.lo, 16) ])

Zero32 == [ hi |-> 0, lo |-> 0 ]

decodeTileValue(value, masks) ==
  [ tileId |-> BitAnd(value, masks.tileIdMask),
    xFlip |-> BitAnd(value, masks.xFlipMask) # Zero32,
    yFlip |-> BitAnd(value, masks.yFlipMask) # Zero32,
    rotation |-> BitAnd(value, masks.rotationMask) # Zero32 ]

\* value |= mask when the flag is set
OrIf(flag, value, mask) == IF flag THEN BitOr(value, mask) ELSE value

encodeTileValue(tile, masks) ==
  OrIf(tile.rotation,
       OrIf(tile.yFlip,
            OrIf(tile.xFlip, BitAnd(tile.tileId, masks.tileIdMask), masks.xFlipMask),
            masks.yFlipMask),
       masks.rotationMask)

Word(hi, lo) == [ hi |-> hi, lo |-> lo ]

\* the masks of the helper tests, the masks of a 16-bit tilemap, and masks whose x-flip
\* mask has two bits
TileMasks ==
  { [ tileIdMask |-> Word(8191, 65535), xFlipMask |-> Word(8192, 0),
      yFlipMask |-> Word(16384, 0), rotationMask |-> Word(32768, 0) ],
    [ tileIdMask |-> Word(0, 8191), xFlipMask |-> Word(0, 8192),
      yFlipMask |-> Word(0, 16384), rotationMask |-> Word(0, 32768) ],
    [ tileIdMask |-> Word(0, 4095), xFlipMask |-> Word(0, 12288),
      yFlipMask |-> Word(0, 16384), rotationMask |-> Word(0, 32768) ] }

\* raw tile values, as a Uint32Array holds them
TileValues ==
  { Word(hi, lo) : hi \in { 0, 1, 8192, 16384, 24576, 32768, 57344, 65535 },
                   lo \in { 0, 1, 42, 4096, 8192, 40960, 65535 } }

TileInit ==
  /\ input \in [ value : TileValues, masks : TileMasks ]
  /\ pc = "start"
  /\ opts = DEFAULT_OPTIONS
  /\ file = None /\ err = None
  /\ edit = NoEdit
  /\ mode = "chunks-if-present"
  /\ out = None /\ encErr = None
  /\ file2 = None /\ err2 = None
  /\ out2 = None /\ encErr2 = None
  /\ ret = None /\ inflateCalls = 0

\* tile = decodeTileValue(value, masks)
DecodeTileValue ==
  /\ pc = "start"
  /\ ret' = Some(decodeTileValue(input.value, input.masks))
  /\ pc' = "decoded"
  /\ UNCHANGED <<input, opts, file, err, edit, mode, out, encErr, file2, err2, out2, encErr2,
                 inflateCalls>>

\* encodeTileValue(tile, masks)
EncodeTileValue ==
  /\ pc = "decoded"
  /\ out' = Some(encodeTileValue(Get(ret), input.masks))
  /\ pc' = "encoded"
  /\ UNCHANGED <<input, opts, file, err, edit, mode, encErr, file2, err2, out2, encErr2, ret,
                 inflateCalls>>

TileNext == DecodeTileValue \/ EncodeTileValue

TileSpec == TileInit /\ [][TileNext]_vars

\* the union of the four masks, as 32 bits
MaskUnion(masks) ==
  Bits32(BitOr(BitOr(masks.tileIdMask, masks.xFlipMask),
               BitOr(masks.yFlipMask, masks.rotationMask)))

\* every set bit of the value is a bit of one of the masks
WithinMasks(value, masks) == Bits32(BitOr(value, MaskUnion(masks))) = MaskUnion(masks)

\* C20: a raw tile value whose set bits lie within the union of the four masks is the
\* value encodeTileValue returns for what decodeTileValue made of it.
C20_TileRoundTrip ==
  (pc = "encoded" /\ WithinMasks(input.value, input.masks)) => Get(out) = input.value

----------------------------------------------------------------------------
(* The attach target: user data that goes to a layer, a cel or a slice.    *)

IsLayerChunk(c) == c.type = ChunkType.Layer

IsSliceChunk(c) == c.type = ChunkType.Slice

\* the frame that holds position p of the flat chunk sequence, counted from frame i
RECURSIVE FrameOfPos(_, _, _)
FrameOfPos(frames, p, i) ==
  IF p <= Len(frames[i].chunks) THEN i
  ELSE FrameOfPos(frames, p - Len(frames[i].chunks), i + 1)

\* the number of chunks in the frames before frame i
FrameStart(frames, i) == SumSeq([ k \in 1..(i - 1) |-> Len(frames[k].chunks) ])

\* the position of the last interrupting chunk before position p, 0 when there is none
RECURSIVE LastSetter(_, _)
LastSetter(flat, p) ==
  IF p <= 1 THEN 0
  ELSE IF Interrupts(flat[p - 1]) THEN p - 1
  ELSE LastSetter(flat, p - 1)

\* the entity that the Layer, Cel or Slice chunk at position q introduced
EntityAt(frames, flat, q) ==
  CASE IsLayerChunk(flat[q]) -> << "layer", Len(SelectSeq(SubSeq(flat, 1, q), IsLayerChunk)), 0 >>
    [] IsSliceChunk(flat[q]) -> << "slice", Len(SelectSeq(SubSeq(flat, 1, q), IsSliceChunk)), 0 >>
    [] IsCelChunk(flat[q]) ->
         << "cel", FrameOfPos(frames, q, 1),
            Len(SelectSeq(SubSeq(flat, FrameStart(frames, FrameOfPos(frames, q, 1)) + 1, q),
                          IsCelChunk)) >>

IsUserDataChunk(c) == c.type = ChunkType.UserData

\* the layers, cels and slices among the holders of a user data
TargetHolders(f, ud) == { h \in Holders(f, ud) : h[1] \in { "layer", "cel", "slice" } }

\* the UserData chunk at position p, the last interrupting chunk before it at q (0: none)
UserDataAttached(f, frames, flat, p, q) ==
  IF q > 0 /\ (IsLayerChunk(flat[q]) \/ IsCelChunk(flat[q]) \/ IsSliceChunk(flat[q]))
  THEN \* the entity holds the last UserData chunk of the run, nothing holds the others
       Holders(f, UserDataOf(flat[p])) =
         IF FollowingUserData(flat, p + 1, 1) = 0 THEN { EntityAt(frames, flat, q) } ELSE {}
  ELSE IF q > 0 /\ IsTileset(flat[q]) THEN TRUE
  ELSE IF q > 0 /\ flat[q].type = ChunkType.Tags
          /\ Len(SelectSeq(SubSeq(flat, q + 1, p), IsUserDataChunk)) <= TagCount(flat[q])
  THEN TRUE
  ELSE TargetHolders(f, UserDataOf(flat[p])) = {}

IsCelExtraChunk(c) == c.type = ChunkType.CelExtra

\* the position of the last Cel chunk before position p, not before position lo
RECURSIVE LastCelBefore(_, _, _)
LastCelBefore(flat, p, lo) ==
  IF p <= lo THEN 0
  ELSE IF IsCelChunk(flat[p - 1]) THEN p - 1
  ELSE LastCelBefore(flat, p - 1, lo)

\* the CelExtra chunk at position p: the most recent cel of its frame holds it
CelExtraAttached(f, frames, flat, p, q) ==
  q > 0 => f.frames[EntityAt(frames, flat, q)[2]].cels[EntityAt(frames, flat, q)[3]].extra
             = Some(parseCelExtraChunk(flat[p].data).extra)

\* C21: in every decoded File, a UserData chunk whose last preceding Layer, Cel, Slice,
\* Tileset, Tags, Palette, OldPalette, ColorProfile or ExternalFiles chunk is a Layer,
\* Cel or Slice chunk goes to the entity of that chunk (the entity holds the last such
\* UserData chunk, whatever CelExtra or unknown chunks lie between); one with no such
\* chunk before it, or a Palette, OldPalette, ColorProfile or ExternalFiles chunk, or a
\* Tags chunk whose tags all have theirs, is held by no layer, cel or slice; and a
\* CelExtra chunk is held by the most recent cel of its frame.
C21_AttachTarget ==
  (pc = "parsed" /\ IsSome(file)) =>
     \A p \in 1..Len(Flat(input)) :
        /\ IsUserDataChunk(Flat(input)[p]) =>
             UserDataAttached(Get(file), DecodedFrames(input), Flat(input), p,
                              LastSetter(Flat(input), p))
        /\ IsCelExtraChunk(Flat(input)[p]) =>
             CelExtraAttached(Get(file), DecodedFrames(input), Flat(input), p,
               LastCelBefore(Flat(input), p,
                 FrameStart(DecodedFrames(input), FrameOfPos(DecodedFrames(input), p, 1)) + 1))

\* a Layer chunk was followed by a UserData chunk, a Palette chunk and a second UserData
\* chunk: the layer holds the first and nothing holds the second
C21_Witness ==
  /\ pc = "parsed" /\ IsSome(file)
  /\ Len(Flat(input)) = 4
  /\ IsLayerChunk(Flat(input)[1]) /\ IsUserDataChunk(Flat(input)[2])
  /\ Flat(input)[3].type = ChunkType.Palette /\ IsUserDataChunk(Flat(input)[4])
  /\ Get(file).layers[1].userData = Some(UserDataOf(Flat(input)[2]))
  /\ Holders(Get(file), UserDataOf(Flat(input)[4])) = {}

\* the user data of the layers, cels (frame after frame), tags, slices, tilesets and
\* tiles of a File, and of the sprite
LayerUserData(layer) == layer.userData

CelUserData(cel) == cel.userData

FrameCelUserData(frame) == Map(CelUserData, frame.cels)

TilesetUserData(tileset) == << tileset.userData, tileset.tileUserData >>

UserDataView(f) ==
  [ layers |-> Map(LayerUserData, f.layers),
    cels |-> Concat(Map(FrameCelUserData, f.frames)),
    tags |-> Map(LayerUserData, f.tags),
    slices |-> Map(LayerUserData, f.slices),
    tilesets |-> Map(TilesetUserData, f.tilesets),
    sprite |-> f.userData ]

IsKnownChunk(c) == c.type \in ChunkTypeValues

\* the input with its known chunks, in order, in a single frame
Joined(in) ==
  WireFile([ in.header EXCEPT !.frameCount = 1 ],
           << WireFrame(1, SelectSeq(Flat(in), IsKnownChunk), ASE_FRAME_MAGIC) >>, None)

UserDataViewOf(r) == IF IsSome(r.file) THEN Some(UserDataView(Get(r.file))) ELSE None

\* a CelExtra chunk follows position q before the next Cel chunk and before position hi
RECURSIVE CelExtraFollows(_, _, _)
CelExtraFollows(flat, q, hi) ==
  IF q + 1 > hi \/ IsCelChunk(flat[q + 1]) THEN FALSE
  ELSE IF IsCelExtraChunk(flat[q + 1]) THEN TRUE
  ELSE CelExtraFollows(flat, q + 1, hi)

\* the cel of the Cel chunk at position q has an extra only from a CelExtra chunk of its
\* own frame
ExtraFromOwnFrame(f, frames, flat, q) ==
  IsSome(f.frames[EntityAt(frames, flat, q)[2]].cels[EntityAt(frames, flat, q)[3]].extra)
    <=> CelExtraFollows(flat, q, FrameStart(frames, FrameOfPos(frames, q, 1))
                                  + Len(frames[FrameOfPos(frames, q, 1)].chunks))

\* C22: the user data of every entity of a decoded File is what it is when the same
\* known chunks arrive in one frame with no unknown chunk among them (frame boundaries
\* and unknown chunks leave the attachment cursor alone), and a cel has an extra exactly
\* when a CelExtra chunk follows its Cel chunk within the same frame (lastCel is reset
\* when a frame starts).
C22_CursorAcrossFrames ==
  (pc = "parsed" /\ IsSome(file)) =>
     /\ UserDataViewOf(parseAseprite(Joined(input), opts)) = Some(UserDataView(Get(file)))
     /\ \A q \in 1..Len(Flat(input)) :
           IsCelChunk(Flat(input)[q]) =>
             ExtraFromOwnFrame(Get(file), DecodedFrames(input), Flat(input), q)

\* a Layer chunk ends frame 0 and a UserData chunk starts frame 1, and the layer holds it;
\* or a Cel chunk ends frame 0, a CelExtra chunk starts frame 1, and the cel has no extra
C22_Witness ==
  /\ pc = "parsed" /\ IsSome(file)
  /\ Len(input.frames) = 2 /\ Len(input.frames[1].chunks) = 1
  /\ Len(input.frames[2].chunks) >= 1
  /\ \/ /\ IsLayerChunk(input.frames[1].chunks[1])
        /\ IsUserDataChunk(input.frames[2].chunks[1])
        /\ Get(file).layers[1].userData = Some(UserDataOf(input.frames[2].chunks[1]))
     \/ /\ IsCelChunk(input.frames[1].chunks[1])
        /\ IsCelExtraChunk(input.frames[2].chunks[1])
        /\ Get(file).frames[1].cels[1].extra = None

----------------------------------------------------------------------------
(* User data under a canonical round trip: short one-frame streams of      *)
(* entities and UserData chunks are decoded, encoded in canonical mode     *)
(* and decoded again.                                                      *)

MaxRoundTripChunks == 3

\* a UserData chunk that declares a text of length 0
EmptyTextUserData == WireUserData(1, <<>>, None, <<>>)

\* Layer, Cel, Tags (two tags), Slice, Tileset, an old palette chunk that skips an
\* index, and three UserData chunks: a text, a text with a colour, an empty text
RoundTripCatalogue ==
  << Catalogue[1], Catalogue[3], Catalogue[12], Catalogue[15], Catalogue[16], Catalogue[11],
     UserDataNo(1), Catalogue[13], EmptyTextUserData >>

RoundTripStreams ==
  UNION { [ 1..n -> 1..Len(RoundTripCatalogue) ] : n \in 0..MaxRoundTripChunks }

RoundTripInputs ==
  { WireFile(TypicalHeader,
             << WireFrame(1, [ i \in 1..Len(s) |-> RoundTripCatalogue[s[i]] ],
                          ASE_FRAME_MAGIC) >>, None) : s \in RoundTripStreams }

RoundTripInit ==
  /\ input \in RoundTripInputs
  /\ pc = "start"
  /\ opts = DEFAULT_OPTIONS
  /\ file = None /\ err = None
  /\ edit = NoEdit
  /\ mode = "chunks-if-present"
  /\ out = None /\ encErr = None
  /\ file2 = None /\ err2 = None
  /\ out2 = None /\ encErr2 = None
  /\ ret = None /\ inflateCalls = 0

RoundTripNext ==
  \/ \E preserveChunks \in BOOLEAN : Parse(FALSE, preserveChunks)
  \/ Encode("canonical")
  \/ Reparse

RoundTripSpec == RoundTripInit /\ [][RoundTripNext]_vars

\* the text and colour of a user data, if there is one
TextAndColor(ud) ==
  IF IsSome(ud) THEN Some([ text |-> Get(ud).text, color |-> Get(ud).color ]) ELSE None

TileTextAndColor(tileset) ==
  IF IsSome(tileset.tileUserData) THEN Map(TextAndColor, Map(Some, Get(tileset.tileUserData)))
  ELSE <<>>

\* per layer, cel, tag, slice, tileset and tile: whether it has user data, and if so
\* with what text and colour
TextAndColorView(f) ==
  [ layers |-> Map(TextAndColor, Map(LayerUserData, f.layers)),
    cels |-> Map(TextAndColor, Concat(Map(FrameCelUserData, f.frames))),
    tags |-> Map(TextAndColor, Map(LayerUserData, f.tags)),
    slices |-> Map(TextAndColor, Map(LayerUserData, f.slices)),
    tilesets |-> Map(TextAndColor, Map(LayerUserData, f.tilesets)),
    tiles |-> Map(TileTextAndColor, f.tilesets) ]

\* C23: user data survives a canonical round trip: for every File decode returns, the
\* canonical encoding exists, decodes, and each layer, cel, tag, slice, tileset and
\* tile of the result has user data exactly when the one of the File has it, with
\* the same text and colour.
C23_UserDataStable ==
  /\ (pc = "encoded" /\ mode = "canonical") => IsSome(out)
  /\ (pc = "reparsed" /\ mode = "canonical") =>
        /\ IsSome(file2)
        /\ TextAndColorView(Get(file2)) = TextAndColorView(Get(file))

----------------------------------------------------------------------------
(* The chunk order of canonical mode                                       *)

UserDataTypes(ud) == IF IsSome(ud) THEN << ChunkType.UserData >> ELSE <<>>

LayerTypes(layer) == << ChunkType.Layer >> \o UserDataTypes(layer.userData)

SliceTypes(slice) == << ChunkType.Slice >> \o UserDataTypes(slice.userData)

TilesetTypes(tileset) ==
  << ChunkType.Tileset >> \o UserDataTypes(tileset.userData)
  \o (IF IsSome(tileset.tileUserData)
      THEN [ j \in 1..Len(Get(tileset.tileUserData)) |-> ChunkType.UserData ] ELSE <<>>)

CelTypes(cel) ==
  << ChunkType.Cel >> \o (IF IsSome(cel.extra) THEN << ChunkType.CelExtra >> ELSE <<>>)
  \o UserDataTypes(cel.userData)

UnknownType(unknown) == unknown.type

\* the type codes the claim lists for the global chunks of the first frame
GlobalTypes(f) ==
  Concat(Map(LayerTypes, f.layers))
  \o (IF IsSome(f.colorProfile) THEN << ChunkType.ColorProfile >> ELSE <<>>)
  \o (IF IsSome(f.externalFiles) /\ Len(Get(f.externalFiles)) > 0
      THEN << ChunkType.ExternalFiles >> ELSE <<>>)
  \o (IF IsSome(f.palette) THEN << ChunkType.Palette >> ELSE <<>>)
  \o (IF Len(f.tags) > 0
      THEN << ChunkType.Tags >> \o Concat(Map(UserDataTypes, Map(LayerUserData, f.tags)))
      ELSE <<>>)
  \o Concat(Map(SliceTypes, f.slices))
  \o Concat(Map(TilesetTypes, f.tilesets))
  \o UserDataTypes(f.userData)
  \o Map(UnknownType, f.unknownChunks)

----------------------------------------------------------------------------
(* The chunk count of a frame: one-frame files of Layer chunks whose frame *)
(* header declares counts that need not be the number of chunks present.   *)

MaxWireChunks == 3

\* the values of the old (16-bit) and the new (32-bit) count field
OldCounts == 0..MaxWireChunks \cup {65535}

NewCounts == 0..MaxWireChunks

CountInputs ==
  { WireFile(TypicalHeader,
             << [ WireFrame(1, [ i \in 1..k |-> Catalogue[1] ], ASE_FRAME_MAGIC) EXCEPT
                    !.oldChunkCount = old, !.newChunkCount = new ] >>, None) :
      k \in 1..MaxWireChunks, old \in OldCounts, new \in NewCounts }

CountInit ==
  /\ input \in CountInputs
  /\ pc = "start"
  /\ opts = DEFAULT_OPTIONS
  /\ file = None /\ err = None
  /\ edit = NoEdit
  /\ mode = "chunks-if-present"
  /\ out = None /\ encErr = None
  /\ file2 = None /\ err2 = None
  /\ out2 = None /\ encErr2 = None
  /\ ret = None /\ inflateCalls = 0

CountNext == \E strict \in BOOLEAN, preserveChunks \in BOOLEAN : Parse(strict, preserveChunks)

CountSpec == CountInit /\ [][CountNext]_vars

\* the count the claim names for a frame header
ClaimedCount(wf) ==
  IF wf.newChunkCount # 0 /\ wf.oldChunkCount = 65535 THEN wf.newChunkCount
  ELSE wf.oldChunkCount

\* the number of chunks a decode took from the only frame: each is a layer of the File
\* and, when chunks are preserved, an entry of the frame's chunk list
Processed(f, options, n) ==
  /\ Len(f.layers) = n
  /\ options.preserveChunks => Len(Get(f.frames[1].chunks)) = n

\* C25: decode processes exactly new-chunk-count chunks of a frame when that count is
\* not 0 and the old count is 0xFFFF, and exactly old-chunk-count chunks otherwise; a
\* count above the number of chunks present ends in a read past the end.
C25_ChunkCount ==
  (pc = "parsed") =>
    IF ClaimedCount(input.frames[1]) <= Len(input.frames[1].chunks)
    THEN IsSome(file) /\ Processed(Get(file), opts, ClaimedCount(input.frames[1]))
    ELSE err = Some(OutOfBoundsError)

\* the old count is 0xFFFF and two of three chunks are taken, and the old count wins
\* over a different new count
C25_Witness ==
  /\ pc = "parsed" /\ IsSome(file)
  /\ Len(input.frames[1].chunks) = 3
  /\ \/ input.frames[1].oldChunkCount = 65535 /\ Len(Get(file).layers) = 2
     \/ /\ input.frames[1].oldChunkCount = 1 /\ input.frames[1].newChunkCount = 3
        /\ Len(Get(file).layers) = 1

----------------------------------------------------------------------------
(* The frame header the encoder writes for a chunk count: the counts are   *)
(* small ones and the ones around 0xFFFF.                                  *)

MaxSmallCount == 60

MinLargeCount == 65530

MaxLargeCount == 65540

FrameHeaderInputs ==
  { [ chunkCount |-> n, durationMs |-> d ] :
      n \in 0..MaxSmallCount \cup MinLargeCount..MaxLargeCount, d \in {0, 100} }

FrameHeaderInit ==
  /\ input \in FrameHeaderInputs
  /\ pc = "start"
  /\ opts = DEFAULT_OPTIONS
  /\ file = None /\ err = None
  /\ edit = NoEdit
  /\ mode = "chunks-if-present"
  /\ out = None /\ encErr = None
  /\ file2 = None /\ err2 = None
  /\ out2 = None /\ encErr2 = None
  /\ ret = None /\ inflateCalls = 0

\* encodeFrameHeader(16, chunkCount, durationMs) for a frame whose chunks are left out
EncodeFrameHeader ==
  /\ pc = "start"
  /\ ret' = Some(encodeFrameHeader(16, input.chunkCount, input.durationMs, <<>>))
  /\ pc' = "returned"
  /\ UNCHANGED <<input, opts, file, err, edit, mode, out, encErr, file2, err2, out2, encErr2,
                 inflateCalls>>

FrameHeaderNext == EncodeFrameHeader

FrameHeaderSpec == FrameHeaderInit /\ [][FrameHeaderNext]_vars

\* C26 (as stated): for n chunks the header has old count n and new count 0 when
\* n <= 0xFFFE, and old count 0xFFFF and new count n otherwise.
C26_FrameHeaderCounts ==
  (pc = "returned") =>
    IF input.chunkCount <= 65534
    THEN Get(ret).oldChunkCount = input.chunkCount /\ Get(ret).newChunkCount = 0
    ELSE Get(ret).oldChunkCount = 65535 /\ Get(ret).newChunkCount = input.chunkCount

\* C26 (amended): the new count is n in both cases; the old count is n when
\* n <= 0xFFFE and 0xFFFF otherwise.
C26_FrameHeaderCountsAmended ==
  (pc = "returned") =>
    /\ Get(ret).newChunkCount = input.chunkCount
    /\ Get(ret).oldChunkCount = IF input.chunkCount <= 65534 THEN input.chunkCount ELSE 65535

\* both sides of the limit have been encoded: 0xFFFE chunks, or more than that
C26_Witness ==
  /\ pc = "returned"
  /\ \/ input.chunkCount = 65534 /\ Get(ret).oldChunkCount = 65534
     \/ input.chunkCount = 65536 /\ Get(ret).oldChunkCount = 65535

----------------------------------------------------------------------------
(* User-data properties: one-frame files of a Layer chunk and a UserData   *)
(* chunk whose properties map holds one property, of every wire type and   *)
(* of a type the decoder does not know.                                    *)

H(hi, lo) == [ hi |-> hi, lo |-> lo ]

WireProperty(type, value) == [ name |-> <<112>>, type |-> type, value |-> value ]

\* 36 characters with dashes that are no UUID: "not-a-uuid-......" and a text with four
\* dashes and letters that are no hexadecimal digits
LongText == <<110, 111, 116, 45, 97, 45, 117, 117, 105, 100>> \o [ i \in 1..26 |-> 46 ]

DashedText ==
  <<122, 122>> \o [ i \in 1..6 |-> 48 ] \o <<45>> \o [ i \in 1..4 |-> 48 ] \o <<45>>
  \o [ i \in 1..4 |-> 48 ] \o <<45>> \o [ i \in 1..4 |-> 48 ] \o <<45>> \o [ i \in 1..12 |-> 48 ]

UuidBytes == [ i \in 1..16 |-> 16 * i - 1 ]

\* Object.values(PropertyType)
PropertyTypeValues == { PropertyType[k] : k \in DOMAIN PropertyType }

KnownProperties ==
  << WireProperty(PropertyType.Null, H(0, 0)),
     WireProperty(PropertyType.Bool, H(0, 1)),
     WireProperty(PropertyType.Bool, H(0, 0)),
     WireProperty(PropertyType.Int8, H(0, 0)),
     WireProperty(PropertyType.Int8, H(0, 255)),
     WireProperty(PropertyType.Uint8, H(0, 200)),
     WireProperty(PropertyType.Int16, H(0, 65535)),
     WireProperty(PropertyType.Int16, H(0, 32768)),
     WireProperty(PropertyType.Int16, H(0, 300)),
     WireProperty(PropertyType.Uint16, H(0, 300)),
     WireProperty(PropertyType.Int32, H(65535, 0)),
     WireProperty(PropertyType.Int32, H(32768, 0)),
     WireProperty(PropertyType.Int32, H(1, 0)),
     WireProperty(PropertyType.Uint32, H(65535, 65535)),
     WireProperty(PropertyType.Int64, <<65535, 65535, 65535, 65534>>),
     WireProperty(PropertyType.Int64, <<0, 0, 0, 7>>),
     WireProperty(PropertyType.Uint64, <<32768, 0, 0, 1>>),
     WireProperty(PropertyType.Fixed, H(1, 32768)),
     WireProperty(PropertyType.Fixed, H(65535, 16384)),
     WireProperty(PropertyType.Fixed, H(2, 0)),
     WireProperty(PropertyType.Float, [ hi |-> 0, lo |-> 2, frac |-> 16384 ]),
     WireProperty(PropertyType.Double, [ hi |-> 0, lo |-> 0, frac |-> 32768 ]),
     WireProperty(PropertyType.Double, [ hi |-> 0 - 1, lo |-> 65533, frac |-> 0 ]),
     WireProperty(PropertyType.Double, [ hi |-> 65536, lo |-> 0, frac |-> 0 ]),
     WireProperty(PropertyType.String, <<104, 105>>),
     WireProperty(PropertyType.String, <<>>),
     WireProperty(PropertyType.String, LongText),
     WireProperty(PropertyType.String, DashedText),
     WireProperty(PropertyType.Point, [ x |-> H(0, 1), y |-> H(65535, 65535) ]),
     WireProperty(PropertyType.Size, [ width |-> H(0, 4), height |-> H(0, 300) ]),
     WireProperty(PropertyType.Rect, [ x |-> H(0, 1), y |-> H(0, 2), width |-> H(0, 3),
                                       height |-> H(1, 0) ]),
     WireProperty(PropertyType.Vector,
                  [ elementType |-> PropertyType.Uint8, elements |-> << H(0, 1), H(0, 2) >> ]),
     WireProperty(PropertyType.Vector,
                  [ elementType |-> PropertyType.Uint16, elements |-> << H(0, 1), H(0, 300) >> ]),
     WireProperty(PropertyType.Vector,
                  [ elementType |-> PropertyType.Int32, elements |-> << H(0, 5), H(65535, 65533) >> ]),
     WireProperty(PropertyType.Vector,
                  [ elementType |-> PropertyType.String, elements |-> << <<97>>, <<98, 99>> >> ]),
     WireProperty(PropertyType.Vector, [ elementType |-> PropertyType.Uint8, elements |-> <<>> ]),
     WireProperty(PropertyType.PropertiesMap,
                  << [ name |-> <<97>>, type |-> PropertyType.Uint8, value |-> H(0, 1) ],
                     [ name |-> <<98>>, type |-> PropertyType.String, value |-> <<120>> ],
                     [ name |-> <<99>>, type |-> PropertyType.Int8, value |-> H(0, 3) ] >>),
     WireProperty(PropertyType.UUID, UuidBytes) >>

\* a property whose type tag is none of PropertyType
UnknownProperty == WireProperty(30583, H(0, 0))

PropertyFile(prop) ==
  WireFile(TypicalHeader,
           << WireFrame(1, << Catalogue[1],
                              WireUserData(4, <<>>, None,
                                           << [ extensionId |-> 12, props |-> << prop >> ] >>) >>,
                        ASE_FRAME_MAGIC) >>, None)

PropertyInputs ==
  { PropertyFile(KnownProperties[i]) : i \in 1..Len(KnownProperties) }
  \cup { PropertyFile(UnknownProperty) }

PropertyInit ==
  /\ input \in PropertyInputs
  /\ pc = "start"
  /\ opts = DEFAULT_OPTIONS
  /\ file = None /\ err = None
  /\ edit = NoEdit
  /\ mode = "chunks-if-present"
  /\ out = None /\ encErr = None
  /\ file2 = None /\ err2 = None
  /\ out2 = None /\ encErr2 = None
  /\ ret = None /\ inflateCalls = 0

PropertyNext ==
  \/ \E strict \in BOOLEAN, preserveChunks \in BOOLEAN : Parse(strict, preserveChunks)
  \/ \E m \in Modes : Encode(m)
  \/ Reparse

PropertySpec == PropertyInit /\ [][PropertyNext]_vars

\* the property of the input and the value the File's only layer holds for it
InputProperty == input.frames[1].chunks[2].data.properties[1].props[1]

PropertyOf(f) == Get(Get(f.layers[1].userData).properties)[1].value[1].value

IsPlaceholder(value) == value.k = "unknownType"

\* C27: a property with an unknown type tag decodes to a placeholder that names the
\* tag, and encoding user data that holds such a placeholder fails with BadChunkSize
\* instead of writing another value.
C27_UnknownPropertyRefused ==
  /\ (pc = "parsed" /\ InputProperty.type \notin PropertyTypeValues) =>
        /\ IsSome(file)
        /\ PropertyOf(Get(file)) = [ k |-> "unknownType", hi |-> 0, lo |-> InputProperty.type ]
  /\ (pc = "encoded" /\ IsPlaceholder(PropertyOf(Get(file)))) =>
        encErr = Some(AseFormatError(AseErrorCode.BAD_CHUNK_SIZE))

\* C28: a property value of a known wire type survives encode and decode: the encode
\* of the decoded File succeeds (preserved mode, given the preserved chunks, and
\* canonical mode), and the File decoded from its output holds the same value for the
\* property, whatever wire type the encoder chose.
C28_PropertyRoundTrip ==
  /\ (pc = "encoded" /\ InputProperty.type \in PropertyTypeValues
        /\ (Canonical \/ opts.preserveChunks)) => IsSome(out)
  /\ (pc = "reparsed" /\ InputProperty.type \in PropertyTypeValues) =>
        /\ IsSome(file2)
        /\ PropertyOf(Get(file2)) = PropertyOf(Get(file))

----------------------------------------------------------------------------
(* Layer hierarchy: validateLayers and the layer tree, over short layer    *)
(* lists of Normal and Group layers at every child level.                  *)

ValidationSeverity == [ Error |-> "error", Warning |-> "warning", Info |-> "info" ]

Issue(severity, code, layerIndex) ==
  [ severity |-> severity, code |-> code, layerIndex |-> layerIndex ]

\* the issues of layer number i (from 1; layerIndex counts from 0)
LayerIssues(layer, i, maxChildLevel) ==
  (IF layer.type \notin {LayerType.Normal, LayerType.Group, LayerType.Tilemap}
   THEN << Issue(ValidationSeverity.Warning, "UNKNOWN_LAYER_TYPE", i - 1) >> ELSE <<>>)
  \o (IF layer.childLevel > maxChildLevel + 1
      THEN << Issue(ValidationSeverity.Warning, "INVALID_CHILD_LEVEL", i - 1) >> ELSE <<>>)
  \o (IF layer.opacity > 255
      THEN << Issue(ValidationSeverity.Warning, "INVALID_OPACITY", i - 1) >> ELSE <<>>)
  \o (IF layer.type = LayerType.Tilemap /\ ~IsSome(layer.tilesetIndex)
      THEN << Issue(ValidationSeverity.Error, "MISSING_TILESET_REFERENCE", i - 1) >> ELSE <<>>)

\* the loop of validateLayers from layer i on
RECURSIVE CheckLayers(_, _, _)
CheckLayers(layers, i, maxChildLevel) ==
  IF i > Len(layers) THEN <<>>
  ELSE LayerIssues(layers[i], i, maxChildLevel)
       \o CheckLayers(layers, i + 1,
                      IF layers[i].type = LayerType.Group THEN layers[i].childLevel + 1
                      ELSE layers[i].childLevel)

\* validateLayers(file, issues): the issues it pushes
validateLayers(layers) ==
  IF Len(layers) = 0 THEN << [ severity |-> ValidationSeverity.Warning, code |-> "NO_LAYERS" ] >>
  ELSE CheckLayers(layers, 1, 0)

\* a faulty variant of PopStack: a group stays open for a layer of its own child level
RECURSIVE PopStackStrict(_, _, _)
PopStackStrict(stack, layers, childLevel) ==
  IF Len(stack) > 0 /\ layers[stack[Len(stack)]].childLevel > childLevel
  THEN PopStackStrict(SubSeq(stack, 1, Len(stack) - 1), layers, childLevel)
  ELSE stack

\* the stack after the pops for a layer of the given child level
RECURSIVE PopStack(_, _, _)
PopStack(stack, layers, childLevel) ==
  IF Len(stack) > 0 /\ layers[stack[Len(stack)]].childLevel >= childLevel
  THEN PopStack(SubSeq(stack, 1, Len(stack) - 1), layers, childLevel)
  ELSE stack

\* the node of layer i (nodes are named by their place in the layer list, 0 is null)
NewNode(i, parent) == [ index |-> i - 1, children |-> <<>>, parent |-> parent ]

\* one turn of the loop of buildLayerTree, the stack already popped
PlaceNode(t, layers, i, stack) ==
  [ roots |-> IF Len(stack) = 0 THEN t.roots \o << i >> ELSE t.roots,
    nodes |-> IF Len(stack) = 0 THEN t.nodes \o << NewNode(i, 0) >>
              ELSE [ t.nodes EXCEPT ![stack[Len(stack)]].children = @ \o << i >> ]
                   \o << NewNode(i, stack[Len(stack)]) >>,
    stack |-> IF layers[i].type = LayerType.Group THEN stack \o << i >> ELSE stack ]

RECURSIVE BuildNodes(_, _, _)
BuildNodes(t, layers, i) ==
  IF i > Len(layers) THEN t
  ELSE BuildNodes(PlaceNode(t, layers, i, PopStack(t.stack, layers, layers[i].childLevel)),
                  layers, i + 1)

\* buildLayerTree(layers): the roots, and the nodes they lead to
buildLayerTree(layers) ==
  [ roots |-> BuildNodes([ roots |-> <<>>, nodes |-> <<>>, stack |-> <<>> ], layers, 1).roots,
    nodes |-> BuildNodes([ roots |-> <<>>, nodes |-> <<>>, stack |-> <<>> ], layers, 1).nodes ]

\* visit(node) of flattenLayerTree
RECURSIVE Visit(_, _)
Visit(nodes, n) ==
  << n >> \o Concat([ c \in 1..Len(nodes[n].children) |-> Visit(nodes, nodes[n].children[c]) ])

\* flattenLayerTree(roots)
flattenLayerTree(tree) ==
  Concat([ r \in 1..Len(tree.roots) |-> Visit(tree.nodes, tree.roots[r]) ])

MaxLayers == 3

MaxChildLevel == 3

LayerOf(type, childLevel) ==
  [ parseLayerChunk(WireLayer(type, <<76>>, None).data).layer EXCEPT !.childLevel = childLevel ]

LayerLists ==
  UNION { [ 1..n -> { LayerOf(ty, l) : ty \in {LayerType.Normal, LayerType.Group},
                                       l \in 0..MaxChildLevel } ] : n \in 0..MaxLayers }

LayerInit ==
  /\ input \in LayerLists
  /\ pc = "start"
  /\ opts = DEFAULT_OPTIONS
  /\ file = None /\ err = None
  /\ edit = NoEdit
  /\ mode = "chunks-if-present"
  /\ out = None /\ encErr = None
  /\ file2 = None /\ err2 = None
  /\ out2 = None /\ encErr2 = None
  /\ ret = None /\ inflateCalls = 0

\* validateLayers on a File with these layers
ValidateLayers ==
  /\ pc = "start"
  /\ ret' = Some([ issues |-> validateLayers(input) ])
  /\ pc' = "validated"
  /\ UNCHANGED <<input, opts, file, err, edit, mode, out, encErr, file2, err2, out2, encErr2,
                 inflateCalls>>

\* buildLayerTree(layers)
BuildLayerTree ==
  /\ pc = "start"
  /\ ret' = Some([ tree |-> buildLayerTree(input) ])
  /\ pc' = "built"
  /\ UNCHANGED <<input, opts, file, err, edit, mode, out, encErr, file2, err2, out2, encErr2,
                 inflateCalls>>

\* flattenLayerTree of the tree just built
FlattenLayerTree ==
  /\ pc = "built"
  /\ ret' = Some([ tree |-> Get(ret).tree, flat |-> flattenLayerTree(Get(ret).tree) ])
  /\ pc' = "flattened"
  /\ UNCHANGED <<input, opts, file, err, edit, mode, out, encErr, file2, err2, out2, encErr2,
                 inflateCalls>>

LayerNext == ValidateLayers \/ BuildLayerTree \/ FlattenLayerTree

LayerSpec == LayerInit /\ [][LayerNext]_vars

\* the greatest child level among the layers before layer i, 0 for the first layer
RECURSIVE RunningMaximum(_, _)
RunningMaximum(layers, i) ==
  IF i <= 1 THEN 0
  ELSE IF layers[i - 1].childLevel > RunningMaximum(layers, i - 1) THEN layers[i - 1].childLevel
  ELSE RunningMaximum(layers, i - 1)

Warned(issues, i) ==
  \E k \in 1..Len(issues) : issues[k].code = "INVALID_CHILD_LEVEL" /\ issues[k].layerIndex = i - 1

\* C29: validate reports the warning INVALID_CHILD_LEVEL for a layer exactly when its
\* child level is more than one above the greatest child level of the layers before
\* it (0 for the first layer), and the issue is a warning.
C29_ChildLevelWarning ==
  (pc = "validated") =>
    /\ \A i \in 1..Len(input) :
          Warned(Get(ret).issues, i)
            <=> input[i].childLevel > RunningMaximum(input, i) + 1
    /\ \A k \in 1..Len(Get(ret).issues) :
          Get(ret).issues[k].code = "INVALID_CHILD_LEVEL"
            => Get(ret).issues[k].severity = ValidationSeverity.Warning

\* no layer between g and i has a child level as small as that of layer g
OpenAt(layers, g, i) == \A k \in (g + 1)..(i - 1) : layers[k].childLevel > layers[g].childLevel

\* the Group layers before layer i that can be its parent
ParentCandidates(layers, i) ==
  { g \in 1..(i - 1) : /\ layers[g].type = LayerType.Group
                       /\ layers[g].childLevel < layers[i].childLevel
                       /\ OpenAt(layers, g, i) }

\* the most recent of them, 0 (no parent) when there is none
ExpectedParent(layers, i) ==
  IF ParentCandidates(layers, i) = {} THEN 0
  ELSE CHOOSE g \in ParentCandidates(layers, i) : \A h \in ParentCandidates(layers, i) : h <= g

\* C30: buildLayerTree makes one node per layer; the parent of a node is the most
\* recent preceding Group layer with a strictly smaller child level that no layer in
\* between has closed with an equal or smaller child level, and the node is a root
\* when there is none; flattening the tree lists the nodes in the order of the layers.
C30_LayerTree ==
  /\ (pc \in {"built", "flattened"}) =>
        /\ Len(Get(ret).tree.nodes) = Len(input)
        /\ \A i \in 1..Len(input) :
              /\ Get(ret).tree.nodes[i].index = i - 1
              /\ Get(ret).tree.nodes[i].parent = ExpectedParent(input, i)
              /\ (ExpectedParent(input, i) = 0) <=>
                    (\E r \in 1..Len(Get(ret).tree.roots) : Get(ret).tree.roots[r] = i)
              /\ \A g \in 1..Len(input) :
                    (ExpectedParent(input, i) = g) <=>
                      (\E c \in 1..Len(Get(ret).tree.nodes[g].children) :
                          Get(ret).tree.nodes[g].children[c] = i)
  /\ (pc = "flattened") => Get(ret).flat = [ i \in 1..Len(input) |-> i ]

\* a group, its child, a layer that closes the group, and the tree flattened
C30_Witness ==
  /\ pc = "flattened" /\ Len(input) = 3
  /\ input[1].type = LayerType.Group /\ input[1].childLevel = 0
  /\ input[2].childLevel = 1 /\ input[3].childLevel = 0
  /\ Get(ret).tree.nodes[2].parent = 1 /\ Get(ret).tree.nodes[3].parent = 0
  /\ Get(ret).tree.roots = << 1, 3 >>
  /\ Get(ret).flat = << 1, 2, 3 >>

====
